---- MODULE Spec2Model ----
(***************************************************************************)
(* go-socks5-chain: a single-hop SOCKS5-to-SOCKS5 relay.                   *)
(*                                                                         *)
(* Part I   text and byte helpers (net.IP.String, fmt.Sprintf,             *)
(*          net.SplitHostPort, fmt.Sscanf as the relay uses them)          *)
(* Part II  the relay engine: proxy.Server.handleConnection and the        *)
(*          functions it calls, one connection record per handler          *)
(* Part III the credential store: config.LoadOrCreate, encrypt, decrypt    *)
(*                                                                         *)
(* Text is a sequence of byte values (0..255); a socket is the sequence    *)
(* of bytes still to be read from it and the sequence of bytes written to  *)
(* it.                                                                     *)
(***************************************************************************)
EXTENDS Integers, Sequences, FiniteSets, TLC

(***************************************************************************)
(* Part I: text and byte helpers                                           *)
(***************************************************************************)

\* ASCII codes of the separators the relay's string handling looks at.
Colon == 58
Dot == 46
LBracket == 91
RBracket == 93
Digit0 == 48
LetterA == 97

\* proxy.VERSION
VERSION == 5

RECURSIVE Dec(_)
\* fmt's %d of a natural number: its decimal digits as text.
Dec(n) ==
    IF n < 10 THEN <<Digit0 + n>>
    ELSE Append(Dec(n \div 10), Digit0 + (n % 10))

\* One lower-case hexadecimal digit as text.
HexDigit(d) == IF d < 10 THEN Digit0 + d ELSE LetterA + (d - 10)

RECURSIVE Hex(_)
\* A 16-bit group in lower-case hexadecimal without leading zeros.
Hex(n) ==
    IF n < 16 THEN <<HexDigit(n)>>
    ELSE Append(Hex(n \div 16), HexDigit(n % 16))

\* Index of the first / last occurrence of byte b in text s, 0 when absent
\* (Go's IndexByteString / LastIndexByteString, 1-based here).
IndexByte(s, b) ==
    IF \E i \in 1..Len(s) : s[i] = b
    THEN CHOOSE i \in 1..Len(s) : s[i] = b /\ \A j \in 1..(i - 1) : s[j] # b
    ELSE 0

LastIndexByte(s, b) ==
    IF \E i \in 1..Len(s) : s[i] = b
    THEN CHOOSE i \in 1..Len(s) : s[i] = b /\ \A j \in (i + 1)..Len(s) : s[j] # b
    ELSE 0

\* s[from..] (1-based, inclusive), empty when from is past the end.
Drop(s, from) == SubSeq(s, from, Len(s))

\* net.IP(b).String() of 4 bytes: dotted decimal.
DottedDecimal(b) ==
    Dec(b[1]) \o <<Dot>> \o Dec(b[2]) \o <<Dot>> \o Dec(b[3]) \o <<Dot>> \o Dec(b[4])

\* The i-th (0..7) 16-bit group of a 16-byte address.
Group(b, i) == b[2 * i + 1] * 256 + b[2 * i + 2]

\* Length of the run of zero groups starting at group i.
ZeroRun(b, i) ==
    IF Group(b, i) # 0 THEN 0
    ELSE LET ends == {j \in i..7 : \A k \in i..j : Group(b, k) = 0}
         IN  Cardinality(ends)

\* Start of the run "::" replaces: the leftmost longest run of at least two
\* zero groups, or 8 when there is none.
ZeroStart(b) ==
    LET cands == {i \in 0..7 : ZeroRun(b, i) >= 2}
    IN  IF cands = {} THEN 8
        ELSE CHOOSE i \in cands :
                 /\ \A j \in cands : ZeroRun(b, j) <= ZeroRun(b, i)
                 /\ \A j \in cands : ZeroRun(b, j) = ZeroRun(b, i) => i <= j

RECURSIVE V6From(_, _, _, _)
\* The groups from i on, with the run [zs, ze) written as "::".
V6From(b, i, zs, ze) ==
    IF i >= 8 THEN <<>>
    ELSE IF i = zs
         THEN <<Colon, Colon>> \o (IF ze >= 8 THEN <<>>
                                  ELSE Hex(Group(b, ze)) \o V6From(b, ze + 1, zs, ze))
         ELSE (IF i > 0 THEN <<Colon>> ELSE <<>>)
              \o Hex(Group(b, i)) \o V6From(b, i + 1, zs, ze)

\* The IPv6 text form of 16 bytes (netip.Addr.String of a plain IPv6 address).
V6Text(b) ==
    LET zs == ZeroStart(b)
        ze == IF zs = 8 THEN 8 ELSE zs + ZeroRun(b, zs)
    IN  V6From(b, 0, zs, ze)

\* IP.To4 on 16 bytes: the address is IPv4-mapped (::ffff:a.b.c.d).
IsV4Mapped(b) ==
    /\ Len(b) = 16
    /\ \A i \in 1..10 : b[i] = 0
    /\ b[11] = 255
    /\ b[12] = 255

\* net.IP(b).String() for the 4- and 16-byte slices handleRequest builds.
IPString(b) ==
    IF Len(b) = 4 THEN DottedDecimal(b)
    ELSE IF IsV4Mapped(b) THEN DottedDecimal(SubSeq(b, 13, 16))
    ELSE V6Text(b)


RECURSIVE ParseDec(_, _)
\* fmt.Sscanf(port, "%d", &portNum): the value of the leading decimal digits
\* of text s, continuing from the value acc; portNum stays 0 without digits.
ParseDec(s, acc) ==
    IF Len(s) = 0 \/ Head(s) < Digit0 \/ Head(s) > Digit0 + 9 THEN acc
    ELSE ParseDec(Tail(s), acc * 10 + (Head(s) - Digit0))

\* net.SplitHostPort(hostport): [ok, host, port].
SplitHostPort(hostport) ==
    LET i    == LastIndexByte(hostport, Colon)
        fail == [ok |-> FALSE, host |-> <<>>, port |-> <<>>]
        end  == IndexByte(hostport, RBracket)
        brk  == hostport[1] = LBracket
        host == IF brk THEN SubSeq(hostport, 2, end - 1)
                ELSE SubSeq(hostport, 1, i - 1)
        j    == IF brk THEN 2 ELSE 1
        k    == IF brk THEN end + 1 ELSE 1
    IN  IF i = 0 THEN fail                                   \* missing port
        ELSE IF brk /\ end = 0 THEN fail                     \* missing ']'
        ELSE IF brk /\ end = Len(hostport) THEN fail         \* missing port
        ELSE IF brk /\ end # i - 1 THEN fail                 \* too many colons / missing port
        ELSE IF ~brk /\ IndexByte(host, Colon) # 0 THEN fail \* too many colons
        ELSE IF IndexByte(Drop(hostport, j), LBracket) # 0 THEN fail
        ELSE IF IndexByte(Drop(hostport, k), RBracket) # 0 THEN fail
        ELSE [ok |-> TRUE, host |-> host, port |-> Drop(hostport, i + 1)]

\* fmt.Sprintf("%s:%d", addr, port)
JoinTarget(addr, port) == addr \o <<Colon>> \o Dec(port)

\* io.ReadFull(conn, buf) with len(buf) = k on a stream holding the bytes
\* `in` followed by end-of-stream: [ok, data, rest].
ReadFull(in, k) ==
    IF Len(in) >= k
    THEN [ok |-> TRUE, data |-> SubSeq(in, 1, k), rest |-> Drop(in, k + 1)]
    ELSE [ok |-> FALSE, data |-> in, rest |-> <<>>]


(***************************************************************************)
(* Part II: the relay engine (src/proxy/proxy.go)                          *)
(***************************************************************************)

\* Bounds of the explored inputs.
MaxConns == 1
MaxMethods == 2
MaxDomainLen == 2
MaxPayload == 2

Conns == 1..MaxConns

VARIABLES
    h,        \* h[c]: the connection record of handler c (see IdleConn)
    srv,      \* the Server: its config and its handler tracker, the
              \* sync.WaitGroup wg (wg: its counter, waiters: the goroutines
              \* registered in Wait, sema: the wake-ups released to them),
              \* and where Start and Stop are modelled its listener field
              \* and its ctx
    store,    \* the credential store's two files
    res,      \* the outcome of the last call of the configuration package
    life      \* the calls of Start and Stop in progress and the listening
              \* sockets bound so far (see IdleLife)

vars == <<h, srv, store, res, life>>

\* The process runs: no goroutine has panicked. An unrecovered panic ends
\* the process, and no goroutine takes another step.
Alive == life.panic = "none"

\* The 10-byte success reply handleRequest writes to the client.
SuccessReply == <<VERSION, 0, 0, 1, 0, 0, 0, 0, 0, 0>>

\* A connection record before the listener has accepted it.
\*   pc       where handleConnection stands
\*   script   every byte the client sends on this connection, in order
\*   cin      the client's bytes not yet read by the relay
\*   cout     the bytes the relay wrote to the client
\*   cclosed  client.Close() has run;  cwr: client CloseWrite() has run
\*   ustate   "none" (not dialled), "open", "closed";  uwr: CloseWrite() has run
\*   uscript  every byte the upstream sends; uin: those not yet read
\*   uout     the bytes the relay wrote to the upstream
\*   deferUp  defer upstreamConn.Close() is registered
\*   target   handleRequest's result;  err: the error that ended the handler
\*   buf      the local variables of the function in progress that a
\*            later step of it reads
\*   cu, uc   the two copy goroutines of forwardTraffic (client->upstream,
\*            upstream->client): "idle", "read", "write", "stop", "done"
\*   cubuf, ucbuf   the chunk a goroutine has read and not yet written
\*   cufail, ucfail io.Copy ended on a write error
\*   cinAt, uinAt, coutAt, uoutAt   the streams as forwardTraffic found them
IdleConn ==
    [pc |-> "idle", script |-> <<>>, cin |-> <<>>, cout |-> <<>>,
     cclosed |-> FALSE, cwr |-> FALSE,
     ustate |-> "none", uwr |-> FALSE, uscript |-> <<>>, uin |-> <<>>,
     uout |-> <<>>, deferUp |-> FALSE,
     target |-> <<>>, err |-> "none", buf |-> <<>>,
     cu |-> "idle", uc |-> "idle", cubuf |-> <<>>, ucbuf |-> <<>>,
     cufail |-> FALSE, ucfail |-> FALSE,
     cinAt |-> <<>>, uinAt |-> <<>>, coutAt |-> 0, uoutAt |-> 0]

\* A handler that begins with the upstream dial.
NewConnDialFirst(script) ==
    [IdleConn EXCEPT !.pc = "dial", !.script = script, !.cin = script]

\* The record of a connection Accept has just returned whose client sends
\* `script`: go s.handleConnection(conn).
NewConn(script) ==
    [IdleConn EXCEPT !.pc = "handshake", !.script = script, !.cin = script]

\* The positions of handleConnection inside each of the functions it calls:
\* one position before every Read and every Write on a socket, where the
\* goroutine may wait.
HandshakePcs == {"handshake", "hs_methods", "hs_reply"}
RequestPcs == {"request", "rq_len", "rq_addr", "rq_port", "rq_reply"}
UpstreamPcs == {"dial", "up_greet", "up_method", "up_auth", "up_status"}
ForwardPcs == {"forward", "fwd_reply"}

\* The function in progress returns the error e.
Fails(s, e) == [s EXCEPT !.buf = <<>>, !.err = e]

\* handleInitialHandshake that answers with the first offered method.
HandshakeEchoMethod(s, wok) ==
    CASE s.pc = "handshake" ->
           LET hd == ReadFull(s.cin, 2)
           IN  IF ~hd.ok THEN Fails([s EXCEPT !.cin = <<>>], "hs_read")
               ELSE IF hd.data[1] # VERSION
                    THEN Fails([s EXCEPT !.cin = hd.rest], "hs_version")
               ELSE [s EXCEPT !.cin = hd.rest, !.buf = hd.data, !.pc = "hs_methods"]
      [] s.pc = "hs_methods" ->
           LET ms == ReadFull(s.cin, s.buf[2])
           IN  IF ~ms.ok THEN Fails([s EXCEPT !.cin = <<>>], "hs_read")
               ELSE [s EXCEPT !.cin = ms.rest, !.buf = ms.data, !.pc = "hs_reply"]
      [] s.pc = "hs_reply" ->
           IF ~wok THEN Fails(s, "hs_write")
           ELSE [s EXCEPT !.cout = @ \o <<VERSION, IF Len(s.buf) > 0 THEN s.buf[1] ELSE 255>>,
                          !.buf = <<>>, !.pc = "request"]

\* One step of Server.handleInitialHandshake(conn) from the position s.pc:
\* the Read of the 2-byte header and the version check, the Read of the
\* methods, the Write of the reply (wok: conn.Write succeeds). A ReadFull
\* that finds fewer bytes than it asks for waits; its step is then the one
\* taken when the peer closes, the read error.
HandleInitialHandshakeStep(s, wok) ==
    CASE s.pc = "handshake" ->
           LET hd == ReadFull(s.cin, 2)
           IN  IF ~hd.ok THEN Fails([s EXCEPT !.cin = <<>>], "hs_read")
               ELSE IF hd.data[1] # VERSION
                    THEN Fails([s EXCEPT !.cin = hd.rest], "hs_version")
               ELSE [s EXCEPT !.cin = hd.rest, !.buf = hd.data, !.pc = "hs_methods"]
      [] s.pc = "hs_methods" ->
           LET ms == ReadFull(s.cin, s.buf[2])
           IN  IF ~ms.ok THEN Fails([s EXCEPT !.cin = <<>>], "hs_read")
               ELSE [s EXCEPT !.cin = ms.rest, !.buf = ms.data, !.pc = "hs_reply"]
      [] s.pc = "hs_reply" ->
           IF ~wok THEN Fails(s, "hs_write")
           ELSE [s EXCEPT !.cout = @ \o <<VERSION, 0>>, !.buf = <<>>, !.pc = "request"]

\* Server.handleInitialHandshake(conn) from its call to its return, on a
\* client stream that ends after the bytes s.cin; wok: conn.Write succeeds.
HandleInitialHandshake(s, wok) ==
    LET run(t) == IF t.err = "none" /\ t.pc \in HandshakePcs
                  THEN HandleInitialHandshakeStep(t, wok) ELSE t
    IN  run(run(run(s)))

\* The number of bytes of the address field still to read, for the local
\* buffer <<atyp>> or <<3, length byte>>.
AddrLen(buf) ==
    CASE buf[1] = 1 -> 4
      [] buf[1] = 4 -> 16
      [] OTHER -> buf[2]

\* handleRequest that replies before it validates the version and type.
HandleRequestReplyFirst(s, wok) ==
    CASE s.pc = "request" ->
           LET hd == ReadFull(s.cin, 4)
               t  == [s EXCEPT !.cout = @ \o SuccessReply]
           IN  IF ~hd.ok THEN Fails([s EXCEPT !.cin = <<>>], "req_read")
               ELSE IF hd.data[1] # VERSION
                    THEN Fails([t EXCEPT !.cin = hd.rest], "req_version")
               ELSE IF hd.data[4] \notin {1, 3, 4}
                    THEN Fails([t EXCEPT !.cin = hd.rest], "req_atyp")
               ELSE [t EXCEPT !.cin = hd.rest, !.buf = <<hd.data[4]>>,
                              !.pc = IF hd.data[4] = 3 THEN "rq_len" ELSE "rq_addr"]
      [] s.pc = "rq_len" ->
           LET l == ReadFull(s.cin, 1)
           IN  IF ~l.ok THEN Fails([s EXCEPT !.cin = <<>>], "req_read")
               ELSE [s EXCEPT !.cin = l.rest, !.buf = <<3, l.data[1]>>, !.pc = "rq_addr"]
      [] s.pc = "rq_addr" ->
           LET a == ReadFull(s.cin, AddrLen(s.buf))
           IN  IF ~a.ok THEN Fails([s EXCEPT !.cin = <<>>], "req_read")
               ELSE [s EXCEPT !.cin = a.rest,
                              !.buf = IF s.buf[1] = 3 THEN a.data ELSE IPString(a.data),
                              !.pc = "rq_port"]
      [] s.pc = "rq_port" ->
           LET pt == ReadFull(s.cin, 2)
           IN  IF ~pt.ok THEN Fails([s EXCEPT !.cin = <<>>], "req_read")
               ELSE [s EXCEPT !.cin = pt.rest,
                              !.buf = JoinTarget(s.buf, pt.data[1] * 256 + pt.data[2]),
                              !.pc = "rq_reply"]
      [] s.pc = "rq_reply" ->
           IF ~wok THEN Fails(s, "req_write")
           ELSE [s EXCEPT !.target = s.buf, !.buf = <<>>, !.pc = "dial"]

\* One step of Server.handleRequest(conn) from the position s.pc: the Read
\* of the 4-byte header with the version check and the switch on the
\* address type, the Read of the length byte of a domain name, the Read of
\* the address, the Read of the port, the Write of the success reply (wok:
\* conn.Write succeeds) with the return of the target. buf holds the local
\* variables: the address type and length, then addr, then addr and port as
\* the returned text will have them.
HandleRequestStep(s, wok) ==
    CASE s.pc = "request" ->
           LET hd == ReadFull(s.cin, 4)
           IN  IF ~hd.ok THEN Fails([s EXCEPT !.cin = <<>>], "req_read")
               ELSE IF hd.data[1] # VERSION
                    THEN Fails([s EXCEPT !.cin = hd.rest], "req_version")
               ELSE IF hd.data[4] \notin {1, 3, 4}
                    THEN Fails([s EXCEPT !.cin = hd.rest], "req_atyp")
               ELSE [s EXCEPT !.cin = hd.rest, !.buf = <<hd.data[4]>>,
                              !.pc = IF hd.data[4] = 3 THEN "rq_len" ELSE "rq_addr"]
      [] s.pc = "rq_len" ->
           LET l == ReadFull(s.cin, 1)
           IN  IF ~l.ok THEN Fails([s EXCEPT !.cin = <<>>], "req_read")
               ELSE [s EXCEPT !.cin = l.rest, !.buf = <<3, l.data[1]>>, !.pc = "rq_addr"]
      [] s.pc = "rq_addr" ->
           LET a == ReadFull(s.cin, AddrLen(s.buf))
           IN  IF ~a.ok THEN Fails([s EXCEPT !.cin = <<>>], "req_read")
               ELSE [s EXCEPT !.cin = a.rest,
                              !.buf = IF s.buf[1] = 3 THEN a.data ELSE IPString(a.data),
                              !.pc = "rq_port"]
      [] s.pc = "rq_port" ->
           LET pt == ReadFull(s.cin, 2)
           IN  IF ~pt.ok THEN Fails([s EXCEPT !.cin = <<>>], "req_read")
               ELSE [s EXCEPT !.cin = pt.rest,
                              !.buf = JoinTarget(s.buf, pt.data[1] * 256 + pt.data[2]),
                              !.pc = "rq_reply"]
      [] s.pc = "rq_reply" ->
           IF ~wok THEN Fails(s, "req_write")
           ELSE [s EXCEPT !.cout = @ \o SuccessReply, !.target = s.buf,
                          !.buf = <<>>, !.pc = "dial"]

\* Server.handleRequest(conn) from its call to its return, on a client
\* stream that ends after the bytes s.cin; wok: conn.Write succeeds.
HandleRequest(s, wok) ==
    LET run(t) == IF t.err = "none" /\ t.pc \in RequestPcs
                  THEN HandleRequestStep(t, wok) ELSE t
    IN  run(run(run(run(run(s)))))


\* The username/password sub-negotiation message built from the config.
AuthMessage(cfg) ==
    <<1, Len(cfg.Username) % 256>> \o cfg.Username
        \o <<Len(cfg.Password) % 256>> \o cfg.Password

\* connectToUpstream closes the connection and returns the error e.
ClosesWith(s, e) == [s EXCEPT !.ustate = "closed", !.err = e]

\* One step of Server.connectToUpstream() from the position s.pc: net.Dial
\* (dialOk its outcome, script the bytes the upstream sends on the new
\* connection), the Write of the greeting, the Read of the method
\* selection, which is not looked at, the Write of the credentials, the Read
\* of the status and its check; wok: conn.Write succeeds. The connection is
\* closed on every failure after the dial.
ConnectToUpstreamStep(s, cfg, dialOk, script, wok) ==
    CASE s.pc = "dial" ->
           IF ~dialOk THEN Fails(s, "dial")
           ELSE [s EXCEPT !.ustate = "open", !.uscript = script, !.uin = script,
                          !.pc = "up_greet"]
      [] s.pc = "up_greet" ->
           IF ~wok THEN ClosesWith(s, "up_write")
           ELSE [s EXCEPT !.uout = @ \o <<VERSION, 1, 2>>, !.pc = "up_method"]
      [] s.pc = "up_method" ->
           LET m == ReadFull(s.uin, 2)
           IN  IF ~m.ok THEN ClosesWith([s EXCEPT !.uin = <<>>], "up_read")
               ELSE [s EXCEPT !.uin = m.rest, !.pc = "up_auth"]
      [] s.pc = "up_auth" ->
           IF ~wok THEN ClosesWith(s, "up_write")
           ELSE [s EXCEPT !.uout = @ \o AuthMessage(cfg), !.pc = "up_status"]
      [] s.pc = "up_status" ->
           LET a == ReadFull(s.uin, 2)
           IN  IF ~a.ok THEN ClosesWith([s EXCEPT !.uin = <<>>], "up_read")
               ELSE IF a.data[2] # 0
                    THEN ClosesWith([s EXCEPT !.uin = a.rest], "auth")
               ELSE [s EXCEPT !.uin = a.rest, !.pc = "forward"]

\* Server.connectToUpstream() from its call to its return, against an
\* upstream whose stream ends after `script`; w1ok and w2ok are the outcomes
\* of the two writes.
ConnectToUpstream(s, cfg, dialOk, script, w1ok, w2ok) ==
    LET run(t, wok) == IF t.err = "none" /\ t.pc \in UpstreamPcs
                       THEN ConnectToUpstreamStep(t, cfg, dialOk, script, wok) ELSE t
    IN  run(run(run(run(run(s, TRUE), w1ok), TRUE), w2ok), TRUE)

\* The CONNECT request forwardRequest builds for a split target.
ConnectRequest(host, port) ==
    LET portNum == ParseDec(port, 0)
    IN  <<VERSION, 1, 0, 3, Len(host) % 256>> \o host
            \o <<(portNum \div 256) % 256, portNum % 256>>

\* One step of Server.forwardRequest(conn, target) from the position s.pc:
\* the split of the target and the Write of the CONNECT request (wok:
\* conn.Write succeeds), the Read of the 10-byte reply and its check.
ForwardRequestStep(s, wok) ==
    CASE s.pc = "forward" ->
           LET sp == SplitHostPort(s.target)
           IN  IF ~sp.ok THEN Fails(s, "split")
               ELSE IF ~wok THEN Fails(s, "fwd_write")
               ELSE [s EXCEPT !.uout = @ \o ConnectRequest(sp.host, sp.port),
                              !.pc = "fwd_reply"]
      [] s.pc = "fwd_reply" ->
           LET rp == ReadFull(s.uin, 10)
           IN  IF ~rp.ok THEN Fails([s EXCEPT !.uin = <<>>], "fwd_read")
               ELSE IF rp.data[2] # 0
                    THEN Fails([s EXCEPT !.uin = rp.rest], "fwd_status")
               ELSE [s EXCEPT !.uin = rp.rest, !.pc = "traffic"]

\* Server.forwardRequest(conn, target) from its call to its return, against
\* an upstream whose stream ends after the bytes s.uin.
ForwardRequest(s, wok) ==
    LET run(t) == IF t.err = "none" /\ t.pc \in ForwardPcs
                  THEN ForwardRequestStep(t, wok) ELSE t
    IN  run(run(s))

\* A handler that dials the upstream again after a failed authentication.
ReturnOrRedial(s) ==
    [s EXCEPT !.pc = IF s.err = "auth" THEN "dial"
                     ELSE IF s.deferUp THEN "ret_upstream" ELSE "ret_wg"]

\* handleConnection returns: its deferred calls run in reverse order of
\* registration: upstreamConn.Close() (if registered), s.wg.Done(),
\* client.Close().
Return(s) ==
    [s EXCEPT !.pc = IF s.deferUp THEN "ret_upstream" ELSE "ret_wg"]

\* A forwardTraffic that discards what the client sent before it started.
StartSpliceDiscardsPending(s) ==
    [s EXCEPT !.pc = "splice", !.cu = "read", !.uc = "read",
              !.cin = <<>>, !.cinAt = <<>>, !.uinAt = s.uin,
              !.coutAt = Len(s.cout), !.uoutAt = Len(s.uout)]

\* forwardTraffic starts its two copy goroutines.
StartSplice(s) ==
    [s EXCEPT !.pc = "splice", !.cu = "read", !.uc = "read",
              !.cinAt = s.cin, !.uinAt = s.uin,
              !.coutAt = Len(s.cout), !.uoutAt = Len(s.uout)]

\* A handler step that, when it records an error, also closes the client
\* sockets of all other handlers.
SetClosingOthers(c, s) ==
    h' = [d \in DOMAIN h |->
            IF d = c THEN s
            ELSE IF s.err # "none" /\ h[d].pc # "idle"
                 THEN [h[d] EXCEPT !.cclosed = TRUE]
                 ELSE h[d]]

\* A step of handler c: its record becomes s, no other record changes.
Set(c, s) == h' = [h EXCEPT ![c] = s]

\* A step of a function handleConnection calls has brought the handler to
\* r: an error makes handleConnection return.
Stepped(r) == IF r.err # "none" THEN Return(r) ELSE r

\* handleConnection, phase 1: a step of handleInitialHandshake.
Phase1Handshake(c) ==
    /\ Alive
    /\ h[c].pc \in HandshakePcs
    /\ \E wok \in BOOLEAN :
         Set(c, Stepped(HandleInitialHandshakeStep(h[c], wok)))
    /\ UNCHANGED <<srv, store, res, life>>

\* handleConnection, phase 2: a step of handleRequest.
Phase2Request(c) ==
    /\ Alive
    /\ h[c].pc \in RequestPcs
    /\ \E wok \in BOOLEAN :
         Set(c, Stepped(HandleRequestStep(h[c], wok)))
    /\ UNCHANGED <<srv, store, res, life>>


(***************************************************************************)
(* The inputs explored: what clients and upstreams send.                   *)
(***************************************************************************)

\* All sequences over S of length lo..hi.
SeqsOf(S, lo, hi) == UNION {[1..n -> S] : n \in lo..hi}

\* All proper prefixes of a script (the peer closes early).
Prefixes(script) == {SubSeq(script, 1, n) : n \in 0..(Len(script) - 1)}

\* Version/method-selection message of a client.
Hello(ver, methods) == <<ver, Len(methods)>> \o methods

\* Request of a client; addr is the address field as sent on the wire.
Request(ver, cmd, atyp, addr, port) == <<ver, cmd, 0, atyp>> \o addr \o port

\* The address field of a domain-name request.
DomainField(name) == <<Len(name)>> \o name

MethodLists == SeqsOf({0, 2}, 0, MaxMethods)
\* Bytes of domain names: a letter and the bytes SplitHostPort looks for.
DomainBytes == {LetterA, Colon, LBracket, RBracket}
Domains == SeqsOf(DomainBytes, 0, MaxDomainLen)
V4Addrs == {<<192, 168, 1, 1>>, <<0, 0, 0, 0>>, <<255, 255, 255, 255>>}
V6Addrs ==
    {<<32, 1, 13, 184, 0, 0, 0, 0, 0, 0, 0, 0, 0, 0, 0, 1>>,   \* 2001:db8::1
     <<0, 0, 0, 0, 0, 0, 0, 0, 0, 0, 0, 0, 0, 0, 0, 0>>,       \* ::
     <<0, 0, 0, 0, 0, 0, 0, 0, 0, 0, 255, 255, 1, 2, 3, 4>>,   \* ::ffff:1.2.3.4
     <<0, 1, 0, 0, 0, 0, 0, 2, 0, 0, 0, 0, 0, 0, 0, 3>>,       \* 1:0:0:2::3
     <<0, 1, 0, 2, 0, 0, 0, 4, 0, 5, 0, 6, 0, 7, 171, 205>>}   \* 1:2:0:4:5:6:7:abcd
Ports == {<<0, 0>>, <<0, 80>>, <<1, 187>>, <<255, 255>>}
ClientPayloads == SeqsOf({7, 9}, 1, MaxPayload)

GoodHello == Hello(VERSION, <<0>>)
GoodRequest == Request(VERSION, 1, 3, DomainField(<<LetterA>>), <<0, 80>>)

\* The address fields explored, with their type byte; type 5 is unsupported.
AddrFields ==
    {<<1, a>> : a \in V4Addrs} \cup {<<3, DomainField(d)>> : d \in Domains}
        \cup {<<4, a>> : a \in V6Addrs} \cup {<<5, <<192, 168, 1, 1>> >>}

ClientScripts ==
    \* every hello, with a good request
    {Hello(v, m) \o GoodRequest : v \in {4, VERSION}, m \in MethodLists}
    \* a good hello with every address and two ports, and one address with
    \* every port
    \cup {GoodHello \o Request(VERSION, 1, f[1], f[2], p) :
              f \in AddrFields, p \in {<<0, 80>>, <<1, 187>>}}
    \cup {GoodHello \o Request(VERSION, 1, 1, <<192, 168, 1, 1>>, p) : p \in Ports}
    \* other request versions and commands
    \cup {GoodHello \o Request(v, cmd, 3, DomainField(<<LetterA>>), <<0, 80>>) :
              v \in {4, VERSION}, cmd \in {1, 2, 3}}
    \* payload after the request
    \cup {GoodHello \o GoodRequest \o p : p \in ClientPayloads}
    \* clients that stop sending early
    \cup Prefixes(Hello(VERSION, <<0, 2>>) \o GoodRequest)
    \cup Prefixes(GoodHello \o Request(VERSION, 1, 1, <<192, 168, 1, 1>>, <<0, 80>>))
    \cup Prefixes(GoodHello \o Request(VERSION, 1, 4,
             <<32, 1, 13, 184, 0, 0, 0, 0, 0, 0, 0, 0, 0, 0, 0, 1>>, <<0, 80>>))

\* What an upstream sends: method selection, authentication status, CONNECT
\* reply, then payload.
MethodReply(ver, m) == <<ver, m>>
AuthReply(ver, status) == <<ver, status>>
ConnectReply(ver, rep) == <<ver, rep, 0, 1, 0, 0, 0, 0, 0, 0>>
UpstreamPayloads == SeqsOf({8, 6}, 1, MaxPayload)
GoodUpstream == MethodReply(VERSION, 2) \o AuthReply(1, 0) \o ConnectReply(VERSION, 0)

UpstreamScripts ==
    {MethodReply(v, m) \o AuthReply(1, 0) \o ConnectReply(VERSION, 0) :
         v \in {0, VERSION}, m \in {0, 2, 255}}
    \cup {MethodReply(VERSION, 2) \o AuthReply(v, st) \o ConnectReply(VERSION, 0) :
              v \in {1, VERSION}, st \in {0, 1, 255}}
    \cup {MethodReply(VERSION, 2) \o AuthReply(1, 0) \o ConnectReply(v, rep) :
              v \in {0, VERSION}, rep \in {0, 1, 5}}
    \cup {GoodUpstream \o p : p \in UpstreamPayloads}
    \cup Prefixes(GoodUpstream)

\* A username of 256 bytes, one more than a length byte can count.
LongName == [i \in 1..256 |-> 117]

\* The credentials the server was built with (NewServer(cfg)): LoadOrCreate
\* returns every config with four non-empty fields, of whatever length.
ServerConfigs ==
    {[Username |-> <<117>>, Password |-> <<112, 119>>,
      UpstreamHost |-> <<104>>, UpstreamPort |-> 1080],
     [Username |-> <<117, 115, 114>>, Password |-> <<112>>,
      UpstreamHost |-> <<104>>, UpstreamPort |-> 1],
     [Username |-> LongName, Password |-> <<112>>,
      UpstreamHost |-> <<104>>, UpstreamPort |-> 1080]}


(***************************************************************************)
(* handleConnection, phases 3 to 5 and its return.                         *)
(***************************************************************************)

\* handleConnection, phase 3, against an upstream that sends one of
\* `scripts`: a step of connectToUpstream; when it returns the connection,
\* defer upstreamConn.Close().
ConnectStep(c, scripts) ==
    /\ Alive
    /\ h[c].pc \in UpstreamPcs
    /\ \E dialOk \in BOOLEAN, wok \in BOOLEAN,
          script \in (IF h[c].pc = "dial" THEN scripts ELSE {h[c].uscript}) :
         LET r == ConnectToUpstreamStep(h[c], srv.config, dialOk, script, wok)
         IN  Set(c, IF r.err # "none" THEN Return(r)
                    ELSE IF r.pc = "forward" THEN [r EXCEPT !.deferUp = TRUE]
                    ELSE r)
    /\ UNCHANGED <<srv, store, res, life>>

\* handleConnection, phase 3.
Phase3Upstream(c) == ConnectStep(c, UpstreamScripts)

\* handleConnection, phase 4: a step of forwardRequest.
Phase4Forward(c) ==
    /\ Alive
    /\ h[c].pc \in ForwardPcs
    /\ \E wok \in BOOLEAN :
         Set(c, Stepped(ForwardRequestStep(h[c], wok)))
    /\ UNCHANGED <<srv, store, res, life>>

\* handleConnection, phase 5: forwardTraffic starts its two goroutines.
Phase5Traffic(c) ==
    /\ Alive
    /\ h[c].pc = "traffic"
    /\ Set(c, StartSplice(h[c]))
    /\ UNCHANGED <<srv, store, res, life>>

\* One Read of io.Copy(upstream, client): end-of-stream ends the copy,
\* otherwise some of the client's pending bytes are taken.
CopyClientRead(c) ==
    /\ Alive
    /\ h[c].pc = "splice" /\ h[c].cu = "read"
    /\ IF h[c].cin = <<>>
       THEN Set(c, [h[c] EXCEPT !.cu = "stop"])
       ELSE \E k \in 1..Len(h[c].cin) :
              Set(c, [h[c] EXCEPT !.cubuf = SubSeq(h[c].cin, 1, k),
                                  !.cin = Drop(h[c].cin, k + 1), !.cu = "write"])
    /\ UNCHANGED <<srv, store, res, life>>

\* The copy step that writes a chunk twice.
CopyChunkTwice(out, buf) == out \o buf \o buf

\* The bytes a destination holds after io.Copy wrote the chunk buf to it.
CopyChunk(out, buf) == out \o buf

\* The Write of io.Copy(upstream, client) for the chunk read; a write error
\* ends the copy.
CopyClientWrite(c) ==
    /\ Alive
    /\ h[c].pc = "splice" /\ h[c].cu = "write"
    /\ \E wok \in BOOLEAN :
         Set(c, IF wok
                THEN [h[c] EXCEPT !.uout = CopyChunk(@, h[c].cubuf), !.cubuf = <<>>,
                                  !.cu = "read"]
                ELSE [h[c] EXCEPT !.cubuf = <<>>, !.cufail = TRUE, !.cu = "stop"])
    /\ UNCHANGED <<srv, store, res, life>>

\* A half-close that ends the opposite direction too.
CopyClientCloseBoth(c) ==
    /\ h[c].pc = "splice" /\ h[c].cu = "stop"
    /\ Set(c, [h[c] EXCEPT !.uwr = TRUE, !.cu = "done", !.cwr = TRUE,
                           !.uc = "done", !.ucbuf = <<>>])
    /\ UNCHANGED <<srv, store, res, life>>

\* upstream.CloseWrite() after io.Copy(upstream, client), then wg.Done().
CopyClientCloseWrite(c) ==
    /\ Alive
    /\ h[c].pc = "splice" /\ h[c].cu = "stop"
    /\ Set(c, [h[c] EXCEPT !.uwr = TRUE, !.cu = "done"])
    /\ UNCHANGED <<srv, store, res, life>>

\* One Read of io.Copy(client, upstream).
CopyUpstreamRead(c) ==
    /\ Alive
    /\ h[c].pc = "splice" /\ h[c].uc = "read"
    /\ IF h[c].uin = <<>>
       THEN Set(c, [h[c] EXCEPT !.uc = "stop"])
       ELSE \E k \in 1..Len(h[c].uin) :
              Set(c, [h[c] EXCEPT !.ucbuf = SubSeq(h[c].uin, 1, k),
                                  !.uin = Drop(h[c].uin, k + 1), !.uc = "write"])
    /\ UNCHANGED <<srv, store, res, life>>

\* The Write of io.Copy(client, upstream).
CopyUpstreamWrite(c) ==
    /\ Alive
    /\ h[c].pc = "splice" /\ h[c].uc = "write"
    /\ \E wok \in BOOLEAN :
         Set(c, IF wok
                THEN [h[c] EXCEPT !.cout = CopyChunk(@, h[c].ucbuf), !.ucbuf = <<>>,
                                  !.uc = "read"]
                ELSE [h[c] EXCEPT !.ucbuf = <<>>, !.ucfail = TRUE, !.uc = "stop"])
    /\ UNCHANGED <<srv, store, res, life>>

\* client.CloseWrite() after io.Copy(client, upstream), then wg.Done().
CopyUpstreamCloseWrite(c) ==
    /\ Alive
    /\ h[c].pc = "splice" /\ h[c].uc = "stop"
    /\ Set(c, [h[c] EXCEPT !.cwr = TRUE, !.uc = "done"])
    /\ UNCHANGED <<srv, store, res, life>>

\* A forwardTraffic that returns as soon as one direction is done.
SpliceReturnEarly(c) ==
    /\ h[c].pc = "splice" /\ (h[c].cu = "done" \/ h[c].uc = "done")
    /\ Set(c, Return(h[c]))
    /\ UNCHANGED <<srv, store, res, life>>

\* forwardTraffic's wg.Wait() returns once both goroutines are done, and
\* handleConnection returns.
SpliceReturn(c) ==
    /\ Alive
    /\ h[c].pc = "splice" /\ h[c].cu = "done" /\ h[c].uc = "done"
    /\ Set(c, Return(h[c]))
    /\ UNCHANGED <<srv, store, res, life>>

\* A return that skips the deferred upstreamConn.Close().
CloseUpstreamNever(s) == [s EXCEPT !.pc = "ret_wg"]

\* Deferred upstreamConn.Close().
CloseUpstream(s) == [s EXCEPT !.ustate = "closed", !.pc = "ret_wg"]

DeferredUpstreamClose(c) ==
    /\ Alive
    /\ h[c].pc = "ret_upstream"
    /\ Set(c, CloseUpstream(h[c]))
    /\ UNCHANGED <<srv, store, res, life>>

\* Deferred s.wg.Done(), that is s.wg.Add(-1) of sync.WaitGroup: the atomic
\* decrement of the counter. A negative counter is a panic. With the
\* counter still positive, or no goroutine registered in Wait, Add returns;
\* else it goes on to release the waiters it saw (kept in buf).
DeferredWgDone(c) ==
    /\ Alive
    /\ h[c].pc = "ret_wg"
    /\ srv' = [srv EXCEPT !.wg = @ - 1]
    /\ IF srv.wg = 0
       THEN /\ life' = [life EXCEPT !.panic = "negative_counter"]
            /\ h' = h
       ELSE /\ Set(c, IF srv.wg > 1 \/ srv.waiters = 0
                      THEN [h[c] EXCEPT !.pc = "ret_client"]
                      ELSE [h[c] EXCEPT !.pc = "ret_release",
                                        !.buf = <<srv.waiters>>])
            /\ life' = life
    /\ UNCHANGED <<store, res>>

\* The rest of s.wg.Add(-1) when it brought the counter to zero with
\* waiters registered: it panics ("WaitGroup misuse: Add called
\* concurrently with Wait") if the state has changed since its decrement,
\* else it resets the state and releases one wake-up per waiter.
DeferredWgRelease(c) ==
    /\ Alive
    /\ h[c].pc = "ret_release"
    /\ IF srv.wg # 0 \/ srv.waiters # h[c].buf[1]
       THEN /\ life' = [life EXCEPT !.panic = "add_concurrent_with_wait"]
            /\ UNCHANGED <<h, srv>>
       ELSE /\ srv' = [srv EXCEPT !.waiters = 0, !.sema = @ + h[c].buf[1]]
            /\ Set(c, [h[c] EXCEPT !.pc = "ret_client", !.buf = <<>>])
            /\ life' = life
    /\ UNCHANGED <<store, res>>

\* Deferred client.Close(); the handler has returned.
DeferredClientClose(c) ==
    /\ Alive
    /\ h[c].pc = "ret_client"
    /\ Set(c, [h[c] EXCEPT !.cclosed = TRUE, !.pc = "done"])
    /\ UNCHANGED <<srv, store, res, life>>

\* A file that does not exist.
NoFile == [exists |-> FALSE]

\* No LoadOrCreate call has returned yet.
NoResult == [kind |-> "none"]

\* Start and Stop as NewServer leaves them: neither has been called and no
\* listening socket is bound. start.pc and stop.pc are the positions of the
\* calls (start.pc = "accept": inside listener.Accept(); stop.pc = "closing":
\* the listener read and, unless nil, closed, Stop inside or just past
\* s.listener.Close()), start.l the local variable listener (0: none), start.conn the
\* script of the client whose connection Accept returned, start.ret what
\* Start returned, stop.path the branch of Stop's select; socks[l] is the
\* state of the l-th listening socket net.Listen bound, accepted the number
\* of connections Accept has returned. waiters[i] is the position of the
\* goroutine the i-th call of Stop starts ("wait": about to call
\* s.wg.Wait(), "parked": registered as a waiter and asleep on the
\* semaphore of the WaitGroup, "woken": Wait has returned, "closed": it has
\* closed done); the goroutine outlives a Stop that returns by the timer.
\* stop.timer is the timer of time.After ("armed", then "fired" once the
\* five seconds have passed). panic is the panic that ended the process
\* ("none" while it runs). calls,
\* afterStop, dispatched, late and busy are history: the number of calls made, whether this Start was
\* called after a Stop had returned, the handlers this Start started,
\* whether the last connection was accepted with the context already
\* cancelled, and whether a handler was tracked at some moment of this Stop.
IdleLife ==
    [start |-> [pc |-> "none", l |-> 0, conn |-> <<>>, late |-> FALSE,
                ret |-> "none", calls |-> 0, afterStop |-> FALSE,
                dispatched |-> 0],
     stop  |-> [pc |-> "none", path |-> "none", calls |-> 0, busy |-> FALSE,
                timer |-> "none"],
     socks |-> <<>>,
     accepted |-> 0,
     waiters |-> <<>>,
     panic |-> "none"]

\* One accepted connection handled by a server built with some credentials:
\* s.wg.Add(1); go s.handleConnection(conn).
Init ==
    /\ \E script \in ClientScripts :
         h = [c \in Conns |-> IF c = 1 THEN NewConn(script) ELSE IdleConn]
    /\ \E cfg \in ServerConfigs : srv = [config |-> cfg, wg |-> 1, waiters |-> 0, sema |-> 0]
    /\ store = [host |-> NoFile, creds |-> NoFile]
    /\ res = NoResult
    /\ life = IdleLife

Next ==
    \E c \in Conns :
        \/ Phase1Handshake(c)
        \/ Phase2Request(c)
        \/ Phase3Upstream(c)
        \/ Phase4Forward(c) \/ Phase5Traffic(c)
        \/ CopyClientRead(c)
        \/ CopyClientWrite(c)
        \/ CopyClientCloseWrite(c)
        \/ CopyUpstreamRead(c)
        \/ CopyUpstreamWrite(c)
        \/ CopyUpstreamCloseWrite(c)
        \/ SpliceReturn(c)
        \/ DeferredUpstreamClose(c)
        \/ DeferredWgDone(c)
        \/ DeferredClientClose(c)

\* The relay engine handling one connection.
Spec == Init /\ [][Next]_vars

\* The steps of a handler that wait for no peer: wg.Wait() of forwardTraffic
\* returns once both goroutines have called wg.Done(), and the deferred
\* calls of handleConnection run one after the other. Reads and writes on
\* the sockets may block for ever and get no fairness.
FairSpec ==
    /\ Spec
    /\ \A c \in Conns :
         /\ WF_vars(SpliceReturn(c)) /\ WF_vars(DeferredUpstreamClose(c))
         /\ WF_vars(DeferredWgDone(c)) /\ WF_vars(DeferredClientClose(c))


(***************************************************************************)
(* Part III: the credential store (src/config/config.go)                   *)
(*                                                                         *)
(* The two files of the configuration directory are store.host             *)
(* (upstream_config) and store.creds (upstream_creds.enc). For            *)
(* LoadOrCreate AES-GCM is kept symbolic: a sealed box opens only under    *)
(* the key and nonce it was sealed with. Part IX computes encrypt and      *)
(* decrypt byte by byte.                                                   *)
(***************************************************************************)

\* Nonces 0..MaxNonce stand for the random nonces of encrypt.
MaxNonce == 1
Nonces == 0..MaxNonce

\* U+FFFD in UTF-8, which encoding/json writes for a byte that is not UTF-8.
ReplacementChar == <<239, 191, 189>>

RECURSIVE JSONString(_)
\* A Go string as json.Marshal writes it and json.Unmarshal reads it back:
\* ASCII is kept, a stray byte 0xff (never valid UTF-8) becomes U+FFFD.
JSONString(t) ==
    IF t = <<>> THEN <<>>
    ELSE (IF Head(t) = 255 THEN ReplacementChar ELSE <<Head(t)>>) \o JSONString(Tail(t))

\* json.Marshal(cfg) of a config.Config.
MarshalConfig(cfg) ==
    [json |-> "Config",
     Username |-> JSONString(cfg.Username), Password |-> JSONString(cfg.Password),
     UpstreamHost |-> JSONString(cfg.UpstreamHost), UpstreamPort |-> cfg.UpstreamPort]

\* json.Unmarshal(data, cfg) into an empty Config: [ok, cfg].
UnmarshalConfig(data) ==
    IF data.json = "Config"
    THEN [ok |-> TRUE,
          cfg |-> [Username |-> data.Username, Password |-> data.Password,
                   UpstreamHost |-> data.UpstreamHost, UpstreamPort |-> data.UpstreamPort]]
    ELSE [ok |-> FALSE]

\* json.Marshal(hostConfig) of the {upstream_host, upstream_port} struct.
MarshalHost(host, port) ==
    [json |-> "hostConfig", upstream_host |-> JSONString(host), upstream_port |-> port]

\* json.Unmarshal(data, &hostConfig): [ok, host, port].
UnmarshalHost(data) ==
    IF data.json = "hostConfig"
    THEN [ok |-> TRUE, host |-> data.upstream_host, port |-> data.upstream_port]
    ELSE [ok |-> FALSE]

\* sha256.Sum256([]byte(password)): the key derived from a passphrase.
Key(password) == [sha256 |-> password]

\* gcm.NonceSize(): the bytes of a nonce of the standard GCM.
NonceSize == 12

\* gcm.Seal(nonce, nonce, data, nil): the nonce followed by the sealed box.
Seal(key, nonce, data) ==
    [nonce |-> nonce, box |-> [key |-> key, nonce |-> nonce, plain |-> data]]

\* n bytes that no Seal produced; RawLen is the number of bytes of decoded
\* data as far as decrypt looks at it: a sealed message is a whole nonce
\* followed by the box.
Junk(n) == [junk |-> n]
RawLen(raw) == IF "junk" \in DOMAIN raw THEN raw.junk ELSE NonceSize

\* base64.StdEncoding.EncodeToString and DecodeString: [ok, raw]; file
\* content that is no base64 text does not decode.
Base64Encode(raw) == [base64 |-> raw]
NotBase64 == [invalid |-> TRUE]
Base64Decode(text) ==
    IF "base64" \in DOMAIN text THEN [ok |-> TRUE, raw |-> text.base64]
    ELSE [ok |-> FALSE]

\* encrypt(data, password) with the nonce drawn.
Encrypt(data, password, nonce) == Base64Encode(Seal(Key(password), nonce, data))

\* decrypt that opens the box under any key.
DecryptAnyKey(encData, password) ==
    LET d == Base64Decode(encData)
    IN  IF ~d.ok THEN [ok |-> FALSE, err |-> "base64"]
        ELSE IF RawLen(d.raw) < NonceSize THEN [ok |-> FALSE, err |-> "short"]
        ELSE IF "junk" \in DOMAIN d.raw THEN [ok |-> FALSE, err |-> "open"]
        ELSE [ok |-> TRUE, data |-> d.raw.box.plain]

\* decrypt without the length check before the nonce is cut off: slicing
\* data[:nonceSize] of shorter data panics.
DecryptNoLengthCheck(encData, password) ==
    LET d == Base64Decode(encData)
    IN  IF ~d.ok THEN [ok |-> FALSE, err |-> "base64"]
        ELSE IF RawLen(d.raw) < NonceSize THEN [ok |-> FALSE, err |-> "panic"]
        ELSE IF "junk" \in DOMAIN d.raw THEN [ok |-> FALSE, err |-> "open"]
        ELSE IF d.raw.box.key = Key(password) /\ d.raw.box.nonce = d.raw.nonce
             THEN [ok |-> TRUE, data |-> d.raw.box.plain]
        ELSE [ok |-> FALSE, err |-> "open"]

\* decrypt(encData, password): [ok, data] or [ok, err]. It fails on text
\* that is not base64 ("base64"), on fewer bytes than a nonce ("short"), and
\* when gcm.Open fails ("open"), which it does unless the box was sealed
\* under this key and nonce.
Decrypt(encData, password) ==
    LET d == Base64Decode(encData)
    IN  IF ~d.ok THEN [ok |-> FALSE, err |-> "base64"]
        ELSE IF RawLen(d.raw) < NonceSize THEN [ok |-> FALSE, err |-> "short"]
        ELSE IF "junk" \in DOMAIN d.raw THEN [ok |-> FALSE, err |-> "open"]
        ELSE IF d.raw.box.key = Key(password) /\ d.raw.box.nonce = d.raw.nonce
             THEN [ok |-> TRUE, data |-> d.raw.box.plain]
        ELSE [ok |-> FALSE, err |-> "open"]

\* The empty Config LoadOrCreate starts from.
EmptyConfig ==
    [Username |-> <<>>, Password |-> <<>>, UpstreamHost |-> <<>>, UpstreamPort |-> 0]

\* A file holding data.
File(data) == [exists |-> TRUE, data |-> data]

\* A merge in which the host file, when present, overrides the host and port
\* of the decrypted record.
MergeHostFileFirst(loaded, st, username, password, upstreamHost, upstreamPort) ==
    LET hc == UnmarshalHost(st.host.data)
        c1 == IF st.host.exists /\ hc.ok
              THEN [loaded EXCEPT !.UpstreamHost = hc.host, !.UpstreamPort = hc.port]
              ELSE loaded
    IN  [c1 EXCEPT !.UpstreamHost = IF upstreamHost # <<>> THEN upstreamHost ELSE @,
                   !.UpstreamPort = IF upstreamPort # 0 THEN upstreamPort ELSE @,
                   !.Username = IF username # <<>> THEN username ELSE @,
                   !.Password = IF password # <<>> THEN password ELSE @]

\* The values LoadOrCreate merges: the decrypted record, then the host file
\* for a host or port still unset, then every argument that is not empty/zero
\* (a host file that does not parse contributes nothing: LoadOrCreate returns
\* its error before it merges).
Merge(loaded, st, username, password, upstreamHost, upstreamPort) ==
    LET hc == UnmarshalHost(st.host.data)
        c1 == IF st.host.exists /\ hc.ok
              THEN [loaded EXCEPT
                      !.UpstreamHost = IF @ = <<>> THEN hc.host ELSE @,
                      !.UpstreamPort = IF @ = 0 THEN hc.port ELSE @]
              ELSE loaded
    IN  [c1 EXCEPT !.UpstreamHost = IF upstreamHost # <<>> THEN upstreamHost ELSE @,
                   !.UpstreamPort = IF upstreamPort # 0 THEN upstreamPort ELSE @,
                   !.Username = IF username # <<>> THEN username ELSE @,
                   !.Password = IF password # <<>> THEN password ELSE @]

\* A validation that checks the host and the port only.
ValidateHostPortOnly(cfg) ==
    IF cfg.UpstreamHost = <<>> \/ cfg.UpstreamPort = 0 THEN "host_port_required"
    ELSE ""

\* The validation of LoadOrCreate: "" when the config is complete.
Validate(cfg) ==
    IF cfg.UpstreamHost = <<>> \/ cfg.UpstreamPort = 0 THEN "host_port_required"
    ELSE IF cfg.Username = <<>> \/ cfg.Password = <<>> THEN "credentials_required"
    ELSE ""

\* The files after LoadOrCreate saved cfg: the host file always, the
\* credentials file when a passphrase was given.
Saved(st, cfg, encpass, nonce) ==
    [host  |-> File(MarshalHost(cfg.UpstreamHost, cfg.UpstreamPort)),
     creds |-> IF encpass # <<>>
               THEN File(Encrypt(MarshalConfig(cfg), encpass, nonce))
               ELSE st.creds]

\* A load that ignores the credentials file when no passphrase is given.
LoadCredsSkipWithoutPassphrase(st, encpass) ==
    LET dec    == Decrypt(st.creds.data, encpass)
        parsed == UnmarshalConfig(dec.data)
    IN  IF ~st.creds.exists \/ encpass = <<>> THEN [err |-> "", cfg |-> EmptyConfig]
        ELSE IF ~dec.ok THEN [err |-> "decrypt_failed", cfg |-> EmptyConfig]
        ELSE IF ~parsed.ok THEN [err |-> "parse_failed", cfg |-> EmptyConfig]
        ELSE [err |-> "", cfg |-> parsed.cfg]

\* The first step of LoadOrCreate: if the credentials file exists it must be
\* decrypted with the passphrase and parsed. [err, cfg], err "" on success.
LoadCreds(st, encpass) ==
    LET dec    == Decrypt(st.creds.data, encpass)
        parsed == UnmarshalConfig(dec.data)
    IN  IF ~st.creds.exists THEN [err |-> "", cfg |-> EmptyConfig]
        ELSE IF encpass = <<>>
             THEN [err |-> "ErrEncryptionPasswordRequired", cfg |-> EmptyConfig]
        ELSE IF ~dec.ok THEN [err |-> "decrypt_failed", cfg |-> EmptyConfig]
        ELSE IF ~parsed.ok THEN [err |-> "parse_failed", cfg |-> EmptyConfig]
        ELSE [err |-> "", cfg |-> parsed.cfg]

\* The outcome of a call: [out, store] where out is
\* [kind |-> "ok", cfg] or [kind |-> "error", err].
Failure(st, e) == [out |-> [kind |-> "error", err |-> e], store |-> st]

\* A LoadOrCreate that writes the host file before it validates the
\* credentials.
LoadOrCreateSaveFirst(st, username, password, encpass, upstreamHost, upstreamPort, nonce) ==
    LET lc  == LoadCreds(st, encpass)
        cfg == Merge(lc.cfg, st, username, password, upstreamHost, upstreamPort)
        hostSaved == [st EXCEPT !.host = File(MarshalHost(cfg.UpstreamHost,
                                                          cfg.UpstreamPort))]
    IN  IF lc.err # "" THEN Failure(st, lc.err)
        ELSE IF st.host.exists /\ ~UnmarshalHost(st.host.data).ok
             THEN Failure(st, "host_parse_failed")
        ELSE IF Validate(cfg) = "host_port_required" THEN Failure(st, Validate(cfg))
        ELSE IF Validate(cfg) # "" THEN Failure(hostSaved, Validate(cfg))
        ELSE [out |-> [kind |-> "ok", cfg |-> cfg],
              store |-> Saved(st, cfg, encpass, nonce)]

\* LoadOrCreate(username, password, encpass, upstreamHost, upstreamPort) on
\* the files st, with the nonce encrypt draws.
LoadOrCreate(st, username, password, encpass, upstreamHost, upstreamPort, nonce) ==
    LET lc  == LoadCreds(st, encpass)
        cfg == Merge(lc.cfg, st, username, password, upstreamHost, upstreamPort)
    IN  IF lc.err # "" THEN Failure(st, lc.err)
        ELSE IF st.host.exists /\ ~UnmarshalHost(st.host.data).ok
             THEN Failure(st, "host_parse_failed")
        ELSE IF Validate(cfg) # "" THEN Failure(st, Validate(cfg))
        ELSE [out |-> [kind |-> "ok", cfg |-> cfg],
              store |-> Saved(st, cfg, encpass, nonce)]

\* The arguments explored.
UsernameArgs == {<<>>, <<117>>, <<118, 255>>}
PasswordArgs == {<<>>, <<112>>}
PassphraseArgs == {<<>>, <<107>>, <<75>>}
HostArgs == {<<>>, <<104>>, <<105>>}
PortArgs == {0, 1080, 8080}

\* One call of LoadOrCreate; res keeps the call's arguments and the files it
\* found next to its outcome.
LoadOrCreateCall ==
    /\ \E username \in UsernameArgs, password \in PasswordArgs,
          encpass \in PassphraseArgs, upstreamHost \in HostArgs,
          upstreamPort \in PortArgs, nonce \in Nonces :
         LET r == LoadOrCreate(store, username, password, encpass,
                               upstreamHost, upstreamPort, nonce)
         IN  /\ store' = r.store
             /\ res' = [kind |-> "returned", out |-> r.out, before |-> store,
                        args |-> [username |-> username, password |-> password,
                                  encpass |-> encpass, upstreamHost |-> upstreamHost,
                                  upstreamPort |-> upstreamPort]]
    /\ UNCHANGED <<h, srv, life>>

\* A SaveConfig that also keeps the passphrase next to the host and port.
SaveConfigWithPassphrase(st, cfg, encpass, nonce) ==
    [host  |-> File([json |-> "hostConfig",
                     upstream_host |-> JSONString(cfg.UpstreamHost) \o encpass,
                     upstream_port |-> cfg.UpstreamPort]),
     creds |-> IF encpass # <<>>
               THEN File(Encrypt(MarshalConfig(cfg), encpass, nonce))
               ELSE st.creds]

\* A SaveConfig that keeps a host file it finds and writes one only where
\* there is none.
SaveConfigKeepsHost(st, cfg, encpass, nonce) ==
    [host  |-> IF st.host.exists THEN st.host
               ELSE File(MarshalHost(cfg.UpstreamHost, cfg.UpstreamPort)),
     creds |-> IF encpass # <<>>
               THEN File(Encrypt(MarshalConfig(cfg), encpass, nonce))
               ELSE st.creds]

\* SaveConfig(cfg, encpass) on the files st: the host file is written from
\* the host and port of cfg, the credentials file from the whole cfg if a
\* passphrase is given; nothing is validated. (Of the Config of SaveConfig
\* the four fields of config.Config are modelled; LocalHost, LocalPort and
\* LogFile travel in the credentials record and are not looked at.)
SaveConfig(st, cfg, encpass, nonce) ==
    [host  |-> File(MarshalHost(cfg.UpstreamHost, cfg.UpstreamPort)),
     creds |-> IF encpass # <<>>
               THEN File(Encrypt(MarshalConfig(cfg), encpass, nonce))
               ELSE st.creds]

\* The configs SaveConfig is called with: two that differ in the username
\* only and one with another host and port.
SaveConfigs ==
    {[Username |-> <<117>>, Password |-> <<112>>,
      UpstreamHost |-> <<104>>, UpstreamPort |-> 1080],
     [Username |-> <<118, 255>>, Password |-> <<112>>,
      UpstreamHost |-> <<104>>, UpstreamPort |-> 1080],
     [Username |-> <<117>>, Password |-> <<112>>,
      UpstreamHost |-> <<105>>, UpstreamPort |-> 8080]}

\* One call of SaveConfig; it returns nil (write errors are not modelled).
SaveConfigCall ==
    /\ \E cfg \in SaveConfigs, encpass \in PassphraseArgs, nonce \in Nonces :
         /\ store' = SaveConfig(store, cfg, encpass, nonce)
         /\ res' = [kind |-> "saved", out |-> [kind |-> "ok", cfg |-> cfg],
                    before |-> store,
                    args |-> [cfg |-> cfg, encpass |-> encpass]]
    /\ UNCHANGED <<h, srv, life>>

\* File content that is no JSON of the expected shape.
BadJSON == [json |-> "invalid"]

\* The configuration directory the program may find: empty, or holding a
\* file it did not write or that was damaged since: a credentials file that
\* is no base64 text, one that decrypts under <<107>> to something that is no
\* JSON, or a host file that is no JSON.
InitialStores ==
    {[host |-> NoFile, creds |-> NoFile],
     [host |-> NoFile, creds |-> File(NotBase64)],
     [host |-> NoFile, creds |-> File(Encrypt(BadJSON, <<107>>, 0))],
     [host |-> File(BadJSON), creds |-> NoFile]}

\* A configuration directory as found and no server yet.
InitStore ==
    /\ h = [c \in Conns |-> IdleConn]
    /\ srv = [config |-> EmptyConfig, wg |-> 0, waiters |-> 0, sema |-> 0]
    /\ store \in InitialStores
    /\ res = NoResult
    /\ life = IdleLife

NextStore == LoadOrCreateCall \/ SaveConfigCall

\* The credential store under any sequence of LoadOrCreate and SaveConfig
\* calls.
SpecStore == InitStore /\ [][NextStore]_vars


\* The largest port number.
MaxPort == 65535

\* Ports as the flag -upstream-port hands them to LoadOrCreate, any int:
\* the ends of the range of ports and the numbers next to them.
WidePortArgs == {-1, 0, 1, MaxPort, MaxPort + 1}

\* One call of LoadOrCreate with a username, a password and a host, with
\* or without passphrase, and a port of WidePortArgs.
LoadOrCreatePortCall ==
    /\ \E username \in UsernameArgs \ {<<>>}, encpass \in PassphraseArgs,
          upstreamPort \in WidePortArgs, nonce \in Nonces :
         LET r == LoadOrCreate(store, username, <<112>>, encpass,
                               <<104>>, upstreamPort, nonce)
         IN  /\ store' = r.store
             /\ res' = [kind |-> "returned", out |-> r.out, before |-> store,
                        args |-> [username |-> username, password |-> <<112>>,
                                  encpass |-> encpass, upstreamHost |-> <<104>>,
                                  upstreamPort |-> upstreamPort]]
    /\ UNCHANGED <<h, srv, life>>

NextPort == LoadOrCreatePortCall

\* The credential store under calls of LoadOrCreate with any port.
SpecPort == InitStore /\ [][NextPort]_vars


(***************************************************************************)
(* Part IV: encrypt and decrypt as functions (src/config/config.go)        *)
(*                                                                         *)
(* The arguments are drawn at the start: the data and passphrase given to  *)
(* encrypt, the passphrase given to decrypt, and a text no encrypt         *)
(* produced. res holds them and the results of the calls made so far.      *)
(***************************************************************************)

\* The longest data encrypted.
MaxData == 2
DataValues == SeqsOf({0, 200}, 0, MaxData)

\* Texts that encrypt did not produce: the one that is no base64 text, and
\* the base64 text of n arbitrary bytes, n = 0 being the empty input.
JunkLens == 0..(NonceSize + 1)
ForeignTexts == {NotBase64} \cup {Base64Encode(Junk(n)) : n \in JunkLens}

\* encrypt(data, password): its text becomes the input of decrypt.
EncryptCall ==
    /\ res.kind = "args"
    /\ \E nonce \in Nonces :
         res' = [res EXCEPT !.kind = "encrypted",
                            !.encData = Encrypt(res.data, res.password, nonce)]
    /\ UNCHANGED <<h, srv, store, life>>

\* decrypt(encData, other) of the text in hand: the foreign text if encrypt
\* was not called, else the text encrypt returned.
DecryptCall ==
    /\ res.kind \in {"args", "encrypted"}
    /\ res' = [res EXCEPT !.kind = "decrypted", !.sealed = (res.kind = "encrypted"),
                          !.out = Decrypt(res.encData, res.other)]
    /\ UNCHANGED <<h, srv, store, life>>

\* The arguments drawn, nothing called yet.
InitCrypt ==
    /\ h = [c \in Conns |-> IdleConn]
    /\ srv = [config |-> EmptyConfig, wg |-> 0, waiters |-> 0, sema |-> 0]
    /\ store = [host |-> NoFile, creds |-> NoFile]
    /\ life = IdleLife
    /\ \E data \in DataValues, password \in PassphraseArgs,
          other \in PassphraseArgs, text \in ForeignTexts :
         res = [kind |-> "args", data |-> data, password |-> password,
                other |-> other, encData |-> text, sealed |-> FALSE,
                out |-> [ok |-> FALSE, err |-> "none"]]

NextCrypt == EncryptCall \/ DecryptCall

\* encrypt and decrypt applied to arguments drawn from the sets above.
SpecCrypt == InitCrypt /\ [][NextCrypt]_vars


(***************************************************************************)
(* Part V: the server lifecycle, Start and Stop (src/proxy/proxy.go)       *)
(*                                                                         *)
(* Start and Stop run concurrently, each call one step per statement that  *)
(* touches shared state. Calls of Start follow one another, and so do      *)
(* calls of Stop. Every Start listens on the same address. The clients     *)
(* accepted here send a hello and nothing more, so that their handlers     *)
(* end in phase 1 or 2.                                                    *)
(***************************************************************************)

\* The numbers of calls of Start and of Stop, and of connections accepted.
MaxStarts == 2
MaxStops == 2
MaxHandlers == 2

Handlers == 1..MaxHandlers

\* What the accepted clients send before they close: a valid hello, or a
\* hello of version 4.
LifeScripts == {GoodHello, Hello(4, <<0>>)}

\* The credentials of the server: one config, as they play no part before
\* phase 3.
LifeConfigs == {cfg \in ServerConfigs : cfg.UpstreamPort = 1}

\* Some listening socket bound by this server is open.
AddressInUse == \E l \in 1..Len(life.socks) : life.socks[l] = "open"

\* Start returns ret.
StartReturns(ret) == [life.start EXCEPT !.pc = "returned", !.ret = ret]

\* Start(addr) is called.
StartCall ==
    /\ Alive
    /\ life.start.pc \in {"none", "returned"}
    /\ life.start.calls < MaxStarts
    /\ life' = [life EXCEPT !.start =
                  [pc |-> "listen", l |-> 0, conn |-> <<>>, late |-> FALSE,
                   ret |-> "none", calls |-> @.calls + 1,
                   afterStop |-> (life.stop.pc = "returned" \/ life.stop.calls > 1),
                   dispatched |-> 0]]
    /\ UNCHANGED <<h, srv, store, res>>

\* net.Listen("tcp", addr): it fails when the address is in use, by a socket
\* of this server still open or by another process (taken); else it binds a
\* new listening socket.
StartListen ==
    /\ Alive
    /\ life.start.pc = "listen"
    /\ \E taken \in BOOLEAN :
         IF taken \/ AddressInUse
         THEN life' = [life EXCEPT !.start =
                         StartReturns(IF taken THEN "listen_failed_taken"
                                      ELSE "listen_failed_own")]
         ELSE life' = [life EXCEPT !.socks = Append(@, "open"),
                                   !.start.l = Len(life.socks) + 1,
                                   !.start.pc = "store"]
    /\ UNCHANGED <<h, srv, store, res>>

\* s.listener = listener.
StartStoreListener ==
    /\ Alive
    /\ life.start.pc = "store"
    /\ srv' = [srv EXCEPT !.listener = life.start.l]
    /\ life' = [life EXCEPT !.start.pc = "select"]
    /\ UNCHANGED <<h, store, res>>

\* select { case <-s.ctx.Done(): return nil; default: ... }.
StartSelectStep ==
    IF srv.cancelled THEN StartReturns("nil") ELSE [life.start EXCEPT !.pc = "accept"]

StartSelect ==
    /\ Alive
    /\ life.start.pc = "select"
    /\ life' = [life EXCEPT !.start = StartSelectStep]
    /\ UNCHANGED <<h, srv, store, res>>

\* listener.Accept() returns the connection of a client; start.late records
\* whether the context was already cancelled when it did.
StartAcceptConn ==
    /\ Alive
    /\ life.start.pc = "accept"
    /\ life.socks[life.start.l] = "open"
    /\ life.accepted < MaxHandlers
    /\ \E script \in LifeScripts :
         life' = [life EXCEPT !.start.pc = "dispatch", !.start.conn = script,
                              !.start.late = srv.cancelled,
                              !.accepted = @ + 1]
    /\ UNCHANGED <<h, srv, store, res>>

\* listener.Accept() fails with another error than that of a closed
\* listener: it is logged and the loop continues.
AcceptErrorStep == [life.start EXCEPT !.pc = "select"]

StartAcceptError ==
    /\ Alive
    /\ life.start.pc = "accept"
    /\ life.socks[life.start.l] = "open"
    /\ life' = [life EXCEPT !.start = AcceptErrorStep]
    /\ UNCHANGED <<h, srv, store, res>>

\* listener.Accept() fails because the listener was closed: return nil.
StartAcceptClosed ==
    /\ Alive
    /\ life.start.pc = "accept"
    /\ life.socks[life.start.l] = "closed"
    /\ life' = [life EXCEPT !.start = StartReturns("nil")]
    /\ UNCHANGED <<h, srv, store, res>>

\* s.wg.Add(1); go s.handleConnection(conn). The Add of sync.WaitGroup
\* increments the counter and panics ("WaitGroup misuse: Add called
\* concurrently with Wait") when it finds waiters registered and the
\* counter at zero before it, which is the state between the decrement and
\* the release of a Done.
StartDispatch ==
    /\ Alive
    /\ life.start.pc = "dispatch"
    /\ srv' = [srv EXCEPT !.wg = @ + 1]
    /\ IF srv.waiters # 0 /\ srv.wg = 0
       THEN /\ h' = h
            /\ life' = [life EXCEPT
                          !.panic = "add_concurrent_with_wait",
                          !.stop.busy = @ \/ life.stop.pc \in {"cancel", "close", "closing", "wait"}]
       ELSE /\ h' = [h EXCEPT ![life.accepted] = NewConn(life.start.conn)]
            /\ life' = [life EXCEPT
                          !.start.pc = "select", !.start.conn = <<>>,
                          !.start.dispatched = @ + 1,
                          !.stop.busy = @ \/ life.stop.pc \in {"cancel", "close", "closing", "wait"}]
    /\ UNCHANGED <<store, res>>

\* Stop() is called.
StopCall ==
    /\ Alive
    /\ life.stop.pc \in {"none", "returned"}
    /\ life.stop.calls < MaxStops
    /\ life' = [life EXCEPT !.stop =
                  [pc |-> "cancel", path |-> "none", calls |-> @.calls + 1,
                   busy |-> srv.wg > 0, timer |-> "none"]]
    /\ UNCHANGED <<h, srv, store, res>>

\* s.cancel().
StopCancel ==
    /\ Alive
    /\ life.stop.pc = "cancel"
    /\ srv' = [srv EXCEPT !.cancelled = TRUE]
    /\ life' = [life EXCEPT !.stop.pc = "close"]
    /\ UNCHANGED <<h, store, res>>

\* A Stop that closes the client socket of every running handler along with
\* the listener.
StopCloseEverything ==
    /\ Alive
    /\ life.stop.pc = "close"
    /\ life' = [life EXCEPT !.stop.pc = "closing",
                            !.socks = IF srv.listener # 0
                                      THEN [@ EXCEPT ![srv.listener] = "closed"]
                                      ELSE @]
    /\ h' = [c \in DOMAIN h |->
               IF h[c].pc \notin {"idle", "done"}
               THEN [h[c] EXCEPT !.cclosed = TRUE] ELSE h[c]]
    /\ UNCHANGED <<srv, store, res>>

\* if s.listener != nil { s.listener.Close() }: Close marks the socket
\* closed, which wakes an Accept blocked on it, and then waits inside Close
\* until no goroutine is in Accept on that socket any more. With s.listener
\* nil nothing is closed.
StopCloseListener ==
    /\ Alive
    /\ life.stop.pc = "close"
    /\ life' = [life EXCEPT !.stop.pc = "closing",
                            !.socks = IF srv.listener # 0
                                      THEN [@ EXCEPT ![srv.listener] = "closed"]
                                      ELSE @]
    /\ UNCHANGED <<h, srv, store, res>>

\* Close has returned (at once when the Accept of Start is not on a socket
\* that is closed, else when Start has left its Accept); Stop makes the
\* channel done, starts the waiter goroutine and enters the select, whose
\* time.After arms the timer.
StopStartWaiter ==
    /\ Alive
    /\ life.stop.pc = "closing"
    /\ ~(life.start.pc = "accept" /\ life.socks[life.start.l] = "closed")
    /\ life' = [life EXCEPT !.stop.pc = "wait", !.waiters = Append(@, "wait"),
                            !.stop.timer = "armed"]
    /\ UNCHANGED <<h, srv, store, res>>

\* The waiter goroutine of the i-th Stop calls s.wg.Wait(): with the counter
\* at zero Wait returns at once; else it registers the goroutine as a
\* waiter and puts it to sleep on the semaphore.
WaiterWait(i) ==
    /\ Alive
    /\ i \in 1..Len(life.waiters)
    /\ life.waiters[i] = "wait"
    /\ IF srv.wg = 0
       THEN /\ life' = [life EXCEPT !.waiters[i] = "woken"]
            /\ srv' = srv
       ELSE /\ life' = [life EXCEPT !.waiters[i] = "parked"]
            /\ srv' = [srv EXCEPT !.waiters = @ + 1]
    /\ UNCHANGED <<h, store, res>>

\* The waiter goroutine is woken by a wake-up a Done released: Wait looks
\* at the state of the WaitGroup again and panics ("WaitGroup is reused
\* before previous Wait has returned") unless it is zero; else Wait
\* returns.
WaiterWake(i) ==
    /\ Alive
    /\ i \in 1..Len(life.waiters)
    /\ life.waiters[i] = "parked"
    /\ srv.sema > 0
    /\ srv' = [srv EXCEPT !.sema = @ - 1]
    /\ life' = IF srv.wg # 0 \/ srv.waiters # 0
               THEN [life EXCEPT !.panic = "reused_before_wait_returned"]
               ELSE [life EXCEPT !.waiters[i] = "woken"]
    /\ UNCHANGED <<h, store, res>>

\* The waiter goroutine: close(done).
WaiterClose(i) ==
    /\ Alive
    /\ i \in 1..Len(life.waiters)
    /\ life.waiters[i] = "woken"
    /\ life' = [life EXCEPT !.waiters[i] = "closed"]
    /\ UNCHANGED <<h, srv, store, res>>

\* Five seconds after Stop entered its select the timer of time.After
\* sends on its channel.
TimerFires ==
    /\ Alive
    /\ life.stop.timer = "armed"
    /\ life' = [life EXCEPT !.stop.timer = "fired"]
    /\ UNCHANGED <<h, srv, store, res>>

\* A Stop that waits for the timer whatever the waiter does.
StopWaitsForTimer == FALSE

\* case <-done is ready: the waiter goroutine of this call has closed done.
StopDoneReady == life.waiters[life.stop.calls] = "closed"

\* case <-done.
StopDone ==
    /\ Alive
    /\ life.stop.pc = "wait"
    /\ StopDoneReady
    /\ life' = [life EXCEPT !.stop.pc = "returned", !.stop.path = "done"]
    /\ UNCHANGED <<h, srv, store, res>>

\* The timer branch: log "Shutdown timeout - some connections may still be
\* active" and fall out of the select, to the end of Stop.
StopTimeoutStep == [life.stop EXCEPT !.pc = "returned", !.path = "timeout"]

\* case <-time.After(5 * time.Second): the timer has fired. With both
\* channels ready the select takes either branch.
StopTimeout ==
    /\ Alive
    /\ life.stop.pc = "wait"
    /\ life.stop.timer = "fired"
    /\ life' = [life EXCEPT !.stop = StopTimeoutStep]
    /\ UNCHANGED <<h, srv, store, res>>

\* A server as NewServer(cfg) returns it.
InitLife ==
    /\ h = [c \in Handlers |-> IdleConn]
    /\ \E cfg \in LifeConfigs :
         srv = [config |-> cfg, wg |-> 0, waiters |-> 0, sema |-> 0,
                listener |-> 0, cancelled |-> FALSE]
    /\ store = [host |-> NoFile, creds |-> NoFile]
    /\ res = NoResult
    /\ life = IdleLife

NextLife ==
    \/ StartCall \/ StartListen \/ StartStoreListener \/ StartSelect
    \/ StartAcceptConn \/ StartAcceptError \/ StartAcceptClosed \/ StartDispatch
    \/ StopCall \/ StopCancel \/ StopCloseListener \/ StopStartWaiter
    \/ StopDone \/ StopTimeout
    \/ TimerFires
    \/ \E i \in 1..MaxStops : WaiterWait(i) \/ WaiterWake(i) \/ WaiterClose(i)
    \/ \E c \in Handlers :
         \/ Phase1Handshake(c) \/ Phase2Request(c)
         \/ DeferredWgDone(c) \/ DeferredWgRelease(c) \/ DeferredClientClose(c)

\* Start, Stop and the handlers of the accepted connections, interleaved.
SpecLife == InitLife /\ [][NextLife]_vars

\* The steps of Start and Stop that the scheduler and the runtime take
\* without waiting for a peer: every statement of a running Start or Stop
\* but the arrival of a connection or of an accept error; a closed listener
\* wakes the Accept blocked on it, the waiter goroutine of Stop runs, and
\* the timer of Stop fires. Handlers may block for ever on their sockets and
\* get no fairness.
FairLife ==
    /\ SpecLife
    /\ WF_vars(StartListen) /\ WF_vars(StartStoreListener) /\ WF_vars(StartSelect)
    /\ WF_vars(StartAcceptClosed) /\ WF_vars(StartDispatch)
    /\ WF_vars(StopCancel) /\ WF_vars(StopCloseListener)
    /\ WF_vars(StopStartWaiter)
    /\ \A i \in 1..MaxStops :
         WF_vars(WaiterWait(i)) /\ WF_vars(WaiterWake(i)) /\ WF_vars(WaiterClose(i))
    /\ WF_vars(TimerFires)
    /\ WF_vars(StopDone) /\ WF_vars(StopTimeout)

\* The same without the timer: the steps of Stop and of its waiter goroutine
\* are taken, the Accept woken by the Close of Stop returns, and nothing
\* says that the five seconds ever pass.
FairWaiter ==
    /\ SpecLife
    /\ WF_vars(StartAcceptClosed)
    /\ WF_vars(StopCancel) /\ WF_vars(StopCloseListener)
    /\ WF_vars(StopStartWaiter)
    /\ \A i \in 1..MaxStops :
         WF_vars(WaiterWait(i)) /\ WF_vars(WaiterWake(i)) /\ WF_vars(WaiterClose(i))
    /\ WF_vars(StopDone)


(***************************************************************************)
(* Part VI: several connections at once (src/proxy/proxy.go)               *)
(*                                                                         *)
(* Start accepts connections and starts a handler for each while the       *)
(* handlers of the earlier ones run. Nobody calls Stop. The first client   *)
(* sends a hello, a request and a byte of payload, and its handler meets   *)
(* every upstream behaviour; the later clients send a hello only.          *)
(***************************************************************************)

\* The number of connections accepted.
MaxClients == 2

Clients == 1..MaxClients

\* What the n-th client sends.
ScriptsOfClient(n) ==
    IF n = 1 THEN {GoodHello \o GoodRequest \o <<7>>} ELSE LifeScripts

\* listener.Accept() returns the connection of the next client.
MultiAcceptConn ==
    /\ Alive
    /\ life.start.pc = "accept"
    /\ life.socks[life.start.l] = "open"
    /\ life.accepted < MaxClients
    /\ \E script \in ScriptsOfClient(life.accepted + 1) :
         life' = [life EXCEPT !.start.pc = "dispatch", !.start.conn = script,
                              !.start.late = srv.cancelled,
                              !.accepted = @ + 1]
    /\ UNCHANGED <<h, srv, store, res>>

\* A server as NewServer(cfg) returns it.
InitMulti ==
    /\ h = [c \in Clients |-> IdleConn]
    /\ \E cfg \in LifeConfigs :
         srv = [config |-> cfg, wg |-> 0, waiters |-> 0, sema |-> 0,
                listener |-> 0, cancelled |-> FALSE]
    /\ store = [host |-> NoFile, creds |-> NoFile]
    /\ res = NoResult
    /\ life = IdleLife

NextMulti ==
    \/ StartCall \/ StartListen \/ StartStoreListener \/ StartSelect
    \/ MultiAcceptConn \/ StartAcceptError \/ StartDispatch
    \/ \E c \in Clients :
         \/ Phase1Handshake(c) \/ Phase2Request(c) \/ Phase3Upstream(c)
         \/ Phase4Forward(c) \/ Phase5Traffic(c)
         \/ CopyClientRead(c) \/ CopyClientWrite(c) \/ CopyClientCloseWrite(c)
         \/ CopyUpstreamRead(c) \/ CopyUpstreamWrite(c) \/ CopyUpstreamCloseWrite(c)
         \/ SpliceReturn(c)
         \/ DeferredUpstreamClose(c) \/ DeferredWgDone(c) \/ DeferredClientClose(c)

\* The accept loop and the handlers it starts, interleaved.
SpecMulti == InitMulti /\ [][NextMulti]_vars


(***************************************************************************)
(* Part VII: shutdown with a connection in flight (src/proxy/proxy.go)     *)
(*                                                                         *)
(* One call of Start, the calls of Stop and the handler of one client     *)
(* that sends a hello, a request and a byte of payload, interleaved: Stop  *)
(* may come at any phase of the handler, the splice included.              *)
(***************************************************************************)

\* What the accepted client sends.
ShutScripts == {GoodHello \o GoodRequest \o <<7>>}

\* Start(addr) is called, once.
ShutStartCall == life.start.pc = "none" /\ StartCall

\* listener.Accept() returns the connection of the one client.
ShutAcceptConn ==
    /\ Alive
    /\ life.start.pc = "accept"
    /\ life.socks[life.start.l] = "open"
    /\ life.accepted = 0
    /\ \E script \in ShutScripts :
         life' = [life EXCEPT !.start.pc = "dispatch", !.start.conn = script,
                              !.start.late = srv.cancelled,
                              !.accepted = @ + 1]
    /\ UNCHANGED <<h, srv, store, res>>

NextShut ==
    \/ ShutStartCall \/ StartListen \/ StartStoreListener \/ StartSelect
    \/ ShutAcceptConn \/ StartAcceptClosed \/ StartDispatch
    \/ StopCall \/ StopCancel \/ StopCloseListener \/ StopStartWaiter
    \/ StopDone \/ StopTimeout
    \/ TimerFires
    \/ \E i \in 1..MaxStops : WaiterWait(i) \/ WaiterWake(i) \/ WaiterClose(i)
    \/ \E c \in Handlers :
         \/ Phase1Handshake(c) \/ Phase2Request(c) \/ Phase3Upstream(c)
         \/ Phase4Forward(c) \/ Phase5Traffic(c)
         \/ CopyClientRead(c) \/ CopyClientWrite(c) \/ CopyClientCloseWrite(c)
         \/ CopyUpstreamRead(c) \/ CopyUpstreamWrite(c) \/ CopyUpstreamCloseWrite(c)
         \/ SpliceReturn(c)
         \/ DeferredUpstreamClose(c) \/ DeferredWgDone(c) \/ DeferredWgRelease(c)
         \/ DeferredClientClose(c)

\* Start, Stop and a handler that runs all five phases, interleaved.
SpecShut == InitLife /\ [][NextShut]_vars


(***************************************************************************)
(* Part VIII: upstream replies of every address type (src/proxy/proxy.go)  *)
(*                                                                         *)
(* One handler whose client sends a hello, a request and a byte of         *)
(* payload, against an upstream that accepts the credentials and answers   *)
(* the CONNECT with a bound address of type IPv4, domain name or IPv6,     *)
(* followed by a byte of payload.                                          *)
(***************************************************************************)

\* The upstream's reply to a CONNECT with bound address field addr of type
\* atyp and bound port 80 (RFC 1928, section 6).
ConnectReplyOf(rep, atyp, addr) == <<VERSION, rep, 0, atyp>> \o addr \o <<0, 80>>

\* The bound address fields: an IPv4 address, domain names of 1 and of 4
\* bytes, an IPv6 address.
BoundAddrFields ==
    {<<1, <<192, 168, 1, 1>> >>,
     <<3, DomainField(<<LetterA>>)>>,
     <<3, DomainField(<<LetterA, LetterA, LetterA, LetterA>>)>>,
     <<4, <<32, 1, 13, 184, 0, 0, 0, 0, 0, 0, 0, 0, 0, 0, 0, 1>> >>}

\* What the upstream sends: the three replies, then one byte of payload.
ReplyScripts ==
    {MethodReply(VERSION, 2) \o AuthReply(1, 0)
         \o ConnectReplyOf(rep, f[1], f[2]) \o <<8>> :
       rep \in {0, 1}, f \in BoundAddrFields}

\* handleConnection, phase 3, against these upstreams.
Phase3UpstreamReply(c) == ConnectStep(c, ReplyScripts)

\* One accepted connection of a client that sends a hello, a request and a
\* byte of payload.
InitReply ==
    /\ h = [c \in Conns |->
              IF c = 1 THEN NewConn(GoodHello \o GoodRequest \o <<7>>) ELSE IdleConn]
    /\ \E cfg \in LifeConfigs : srv = [config |-> cfg, wg |-> 1, waiters |-> 0, sema |-> 0]
    /\ store = [host |-> NoFile, creds |-> NoFile]
    /\ res = NoResult
    /\ life = IdleLife

NextReply ==
    \E c \in Conns :
        \/ Phase1Handshake(c) \/ Phase2Request(c) \/ Phase3UpstreamReply(c)
        \/ Phase4Forward(c) \/ Phase5Traffic(c)
        \/ CopyClientRead(c) \/ CopyClientWrite(c) \/ CopyClientCloseWrite(c)
        \/ CopyUpstreamRead(c) \/ CopyUpstreamWrite(c) \/ CopyUpstreamCloseWrite(c)
        \/ SpliceReturn(c)
        \/ DeferredUpstreamClose(c) \/ DeferredWgDone(c) \/ DeferredClientClose(c)

\* The relay engine against upstream replies of every address type.
SpecReply == InitReply /\ [][NextReply]_vars


(***************************************************************************)
(* Part IX: encrypt and decrypt byte by byte (src/config/config.go)        *)
(*                                                                         *)
(* Here the library functions that encrypt and decrypt call are computed   *)
(* as their standards define them: SHA-256 (FIPS 180-4), AES with a        *)
(* 256-bit key (FIPS 197), GCM with a 12-byte nonce and a 16-byte tag      *)
(* (NIST SP 800-38D) and base64 with padding (RFC 4648). A byte is a       *)
(* number 0..255, a text or a key a sequence of bytes, and a 32-bit word   *)
(* the pair <<high, low>> of its 16-bit halves. Part III keeps of these    *)
(* functions what LoadOrCreate depends on; here nothing is left out but    *)
(* the source of the nonce. The arguments are drawn at the start; res      *)
(* holds them and the results of the calls made so far.                    *)
(***************************************************************************)

RECURSIVE XorBits(_, _)
\* The bitwise exclusive or of two natural numbers.
XorBits(a, b) ==
    IF a = 0 THEN b
    ELSE IF b = 0 THEN a
    ELSE ((a + b) % 2) + 2 * XorBits(a \div 2, b \div 2)

RECURSIVE AndBits(_, _)
\* The bitwise and of two natural numbers.
AndBits(a, b) ==
    IF a = 0 \/ b = 0 THEN 0
    ELSE ((a % 2) * (b % 2)) + 2 * AndBits(a \div 2, b \div 2)

\* The sequence of the values of a function on 1..n. (Concatenation makes
\* TLC compute the values once, where it would keep the function's rule.)
AsSeq(f) == f \o <<>>

\* n zero bytes.
Zeros(n) == AsSeq([i \in 1..n |-> 0])

RECURSIVE BigEndian(_, _)
\* The number n in k bytes, most significant first.
BigEndian(n, k) ==
    IF k = 0 THEN <<>> ELSE BigEndian(n \div 256, k - 1) \o <<n % 256>>

\* The bytes of x, each xored with the byte of y at its place.
XorBytes(x, y) == AsSeq([i \in 1..Len(x) |-> XorBits(x[i], y[i])])

\* The operations of FIPS 180-4 on 32-bit words: rotate right, shift right,
\* xor, and, complement, addition modulo 2^32.
Rotr(x, n) ==
    LET y == IF n >= 16 THEN <<x[2], x[1]>> ELSE x
        p == 2 ^ (n % 16)
        q == 2 ^ (16 - (n % 16))
    IN  <<(y[1] \div p) + (y[2] % p) * q, (y[2] \div p) + (y[1] % p) * q>>
Shr(x, n) ==
    IF n >= 16 THEN <<0, x[1] \div (2 ^ (n - 16))>>
    ELSE <<x[1] \div (2 ^ n), (x[2] \div (2 ^ n)) + (x[1] % (2 ^ n)) * (2 ^ (16 - n))>>
Xor32(x, y) == <<XorBits(x[1], y[1]), XorBits(x[2], y[2])>>
And32(x, y) == <<AndBits(x[1], y[1]), AndBits(x[2], y[2])>>
Not32(x) == <<65535 - x[1], 65535 - x[2]>>
Add32(x, y) ==
    LET lo == x[2] + y[2]
    IN  <<(x[1] + y[1] + (lo \div 65536)) % 65536, lo % 65536>>

\* The functions of SHA-256 (FIPS 180-4, 4.1.2).
Ch(x, y, z) == Xor32(And32(x, y), And32(Not32(x), z))
Maj(x, y, z) == Xor32(Xor32(And32(x, y), And32(x, z)), And32(y, z))
BigSigma0(x) == Xor32(Xor32(Rotr(x, 2), Rotr(x, 13)), Rotr(x, 22))
BigSigma1(x) == Xor32(Xor32(Rotr(x, 6), Rotr(x, 11)), Rotr(x, 25))
SmallSigma0(x) == Xor32(Xor32(Rotr(x, 7), Rotr(x, 18)), Shr(x, 3))
SmallSigma1(x) == Xor32(Xor32(Rotr(x, 17), Rotr(x, 19)), Shr(x, 10))

\* The 64 round constants and the initial hash value of SHA-256 (FIPS 180-4,
\* 4.2.2 and 5.3.3).
Sha256K ==
    <<
      <<17034, 12184>>, <<28983, 17553>>, <<46528, 64463>>, <<59829, 56229>>,
      <<14678, 49755>>, <<23025, 4593>>, <<37439, 33444>>, <<43804, 24277>>,
      <<55303, 43672>>, <<4739, 23297>>, <<9265, 34238>>, <<21772, 32195>>,
      <<29374, 23924>>, <<32990, 45566>>, <<39900, 1703>>, <<49563, 61812>>,
      <<58523, 27073>>, <<61374, 18310>>, <<4033, 40390>>, <<9228, 41420>>,
      <<11753, 11375>>, <<19060, 33962>>, <<23728, 43484>>, <<30457, 35034>>,
      <<38974, 20818>>, <<43057, 50797>>, <<45059, 10184>>, <<48985, 32711>>,
      <<50912, 3059>>, <<54695, 37191>>, <<1738, 25425>>, <<5161, 10599>>,
      <<10167, 2693>>, <<11803, 8504>>, <<19756, 28156>>, <<21304, 3347>>,
      <<25866, 29524>>, <<30314, 2747>>, <<33218, 51502>>, <<37490, 11397>>,
      <<41663, 59553>>, <<43034, 26187>>, <<49739, 35696>>, <<51052, 20899>>,
      <<53650, 59417>>, <<54937, 1572>>, <<62478, 13701>>, <<4202, 41072>>,
      <<6564, 49430>>, <<7735, 27656>>, <<10056, 30540>>, <<13488, 48309>>,
      <<14620, 3251>>, <<20184, 43594>>, <<23452, 51791>>, <<26670, 28659>>,
      <<29839, 33518>>, <<30885, 25455>>, <<33992, 30740>>, <<36039, 520>>,
      <<37054, 65530>>, <<42064, 27883>>, <<48889, 41975>>, <<50801, 30962>>
    >>
Sha256H0 ==
    <<
      <<27145, 58983>>, <<47975, 44677>>, <<15470, 62322>>, <<42319, 62778>>,
      <<20750, 21119>>, <<39685, 26764>>, <<8067, 55723>>, <<23520, 52505>>
    >>

\* The message followed by the bit 1, zero bits and its length in bits as a
\* 64-bit number, a multiple of 64 bytes in all (FIPS 180-4, 5.1.1).
Sha256Pad(msg) ==
    msg \o <<128>> \o Zeros((119 - (Len(msg) % 64)) % 64)
        \o BigEndian(8 * Len(msg), 8)

\* The 32-bit words of a sequence of bytes, big-endian.
WordsOf(b) ==
    AsSeq([i \in 1..(Len(b) \div 4) |->
             <<b[4 * i - 3] * 256 + b[4 * i - 2], b[4 * i - 1] * 256 + b[4 * i]>>])

RECURSIVE BytesOf(_)
\* The bytes of a sequence of 32-bit words, big-endian.
BytesOf(ws) ==
    IF ws = <<>> THEN <<>>
    ELSE <<ws[1][1] \div 256, ws[1][1] % 256, ws[1][2] \div 256, ws[1][2] % 256>>
             \o BytesOf(Tail(ws))

RECURSIVE ScheduleTo(_, _)
\* The message schedule (FIPS 180-4, 6.2.2, step 1): the words w extended
\* to n words.
ScheduleTo(w, n) ==
    IF Len(w) >= n THEN w
    ELSE LET t == Len(w) + 1
         IN  ScheduleTo(Append(w, Add32(Add32(SmallSigma1(w[t - 2]), w[t - 7]),
                                        Add32(SmallSigma0(w[t - 15]), w[t - 16]))), n)

\* The 16 words of a block extended to the 64 of the schedule, 16 at a
\* time, which bounds the depth of the recursion.
Schedule(w) == ScheduleTo(ScheduleTo(ScheduleTo(w, 32), 48), 64)

RECURSIVE RoundsTo(_, _, _)
\* The rounds of the compression function under the schedule w (FIPS 180-4,
\* 6.2.2, step 3): vs holds the working variables <<a, b, c, d, e, f, g, h>>
\* before the first round and after each round made so far, and is extended
\* to those after round n.
RoundsTo(vs, w, n) ==
    IF Len(vs) > n THEN vs
    ELSE LET t  == Len(vs)
             v  == vs[t]
             t1 == Add32(Add32(Add32(v[8], BigSigma1(v[5])),
                               Add32(Ch(v[5], v[6], v[7]), Sha256K[t])), w[t])
             t2 == Add32(BigSigma0(v[1]), Maj(v[1], v[2], v[3]))
         IN  RoundsTo(Append(vs, <<Add32(t1, t2), v[1], v[2], v[3],
                                   Add32(v[4], t1), v[5], v[6], v[7]>>), w, n)

\* The working variables after the 64 rounds, made 16 at a time.
Rounds(hv, w) ==
    RoundsTo(RoundsTo(RoundsTo(RoundsTo(<<hv>>, w, 16), w, 32), w, 48), w, 64)[65]

\* The hash value after one more block of 64 bytes.
Compress(hv, block) ==
    LET v == Rounds(hv, Schedule(WordsOf(block)))
    IN  <<Add32(hv[1], v[1]), Add32(hv[2], v[2]), Add32(hv[3], v[3]),
          Add32(hv[4], v[4]), Add32(hv[5], v[5]), Add32(hv[6], v[6]),
          Add32(hv[7], v[7]), Add32(hv[8], v[8])>>

RECURSIVE Sha256Blocks(_, _)
Sha256Blocks(hv, m) ==
    IF m = <<>> THEN hv
    ELSE Sha256Blocks(Compress(hv, SubSeq(m, 1, 64)), SubSeq(m, 65, Len(m)))

\* sha256.Sum256(msg): the 32 bytes of the digest.
Sum256(msg) == BytesOf(Sha256Blocks(Sha256H0, Sha256Pad(msg)))

\* The S-box of AES (FIPS 197, figure 7).
SBox ==
    <<
      99, 124, 119, 123, 242, 107, 111, 197, 48, 1, 103, 43, 254, 215, 171, 118,
      202, 130, 201, 125, 250, 89, 71, 240, 173, 212, 162, 175, 156, 164, 114, 192,
      183, 253, 147, 38, 54, 63, 247, 204, 52, 165, 229, 241, 113, 216, 49, 21,
      4, 199, 35, 195, 24, 150, 5, 154, 7, 18, 128, 226, 235, 39, 178, 117,
      9, 131, 44, 26, 27, 110, 90, 160, 82, 59, 214, 179, 41, 227, 47, 132,
      83, 209, 0, 237, 32, 252, 177, 91, 106, 203, 190, 57, 74, 76, 88, 207,
      208, 239, 170, 251, 67, 77, 51, 133, 69, 249, 2, 127, 80, 60, 159, 168,
      81, 163, 64, 143, 146, 157, 56, 245, 188, 182, 218, 33, 16, 255, 243, 210,
      205, 12, 19, 236, 95, 151, 68, 23, 196, 167, 126, 61, 100, 93, 25, 115,
      96, 129, 79, 220, 34, 42, 144, 136, 70, 238, 184, 20, 222, 94, 11, 219,
      224, 50, 58, 10, 73, 6, 36, 92, 194, 211, 172, 98, 145, 149, 228, 121,
      231, 200, 55, 109, 141, 213, 78, 169, 108, 86, 244, 234, 101, 122, 174, 8,
      186, 120, 37, 46, 28, 166, 180, 198, 232, 221, 116, 31, 75, 189, 139, 138,
      112, 62, 181, 102, 72, 3, 246, 14, 97, 53, 87, 185, 134, 193, 29, 158,
      225, 248, 152, 17, 105, 217, 142, 148, 155, 30, 135, 233, 206, 85, 40, 223,
      140, 161, 137, 13, 191, 230, 66, 104, 65, 153, 45, 15, 176, 84, 187, 22
    >>
SubByte(b) == SBox[b + 1]

\* Multiplication by 2 and by 3 in GF(2^8) modulo x^8 + x^4 + x^3 + x + 1.
Mul2(b) == IF b < 128 THEN 2 * b ELSE XorBits(2 * b - 256, 27)
Mul3(b) == XorBits(Mul2(b), b)

\* The round constants of the key expansion.
Rcon == <<1, 2, 4, 8, 16, 32, 64>>

\* The 8 words of a 32-byte key.
KeyWords(key) ==
    <<SubSeq(key, 1, 4), SubSeq(key, 5, 8), SubSeq(key, 9, 12), SubSeq(key, 13, 16),
      SubSeq(key, 17, 20), SubSeq(key, 21, 24), SubSeq(key, 25, 28), SubSeq(key, 29, 32)>>

RECURSIVE ExpandKeyTo(_, _)
\* The key expansion of AES-256 (FIPS 197, 5.2): the words w extended to n
\* words.
ExpandKeyTo(w, n) ==
    IF Len(w) >= n THEN w
    ELSE LET i    == Len(w)
             prev == w[i]
             temp == IF i % 8 = 0
                     THEN <<XorBits(SubByte(prev[2]), Rcon[i \div 8]),
                            SubByte(prev[3]), SubByte(prev[4]), SubByte(prev[1])>>
                     ELSE IF i % 8 = 4
                          THEN <<SubByte(prev[1]), SubByte(prev[2]),
                                 SubByte(prev[3]), SubByte(prev[4])>>
                     ELSE prev
         IN  ExpandKeyTo(Append(w, XorBytes(w[i - 7], temp)), n)

\* aes.NewCipher(key): the 60 words of the 15 round keys, expanded from the
\* 8 words of the key in stages, which bounds the depth of the recursion.
NewCipher(key) == ExpandKeyTo(ExpandKeyTo(ExpandKeyTo(KeyWords(key), 24), 42), 60)

\* The r-th round key (0..14).
RoundKey(w, r) == w[4 * r + 1] \o w[4 * r + 2] \o w[4 * r + 3] \o w[4 * r + 4]

\* The transformations of the cipher on the 16 bytes of the state, stored
\* column by column (FIPS 197, 5.1).
SubBytes(st) == AsSeq([i \in 1..16 |-> SubByte(st[i])])
ShiftRows(st) ==
    AsSeq([i \in 1..16 |->
             st[4 * ((((i - 1) \div 4) + ((i - 1) % 4)) % 4) + ((i - 1) % 4) + 1]])
MixColumn(a) ==
    <<XorBits(XorBits(Mul2(a[1]), Mul3(a[2])), XorBits(a[3], a[4])),
      XorBits(XorBits(a[1], Mul2(a[2])), XorBits(Mul3(a[3]), a[4])),
      XorBits(XorBits(a[1], a[2]), XorBits(Mul2(a[3]), Mul3(a[4]))),
      XorBits(XorBits(Mul3(a[1]), a[2]), XorBits(a[3], Mul2(a[4])))>>
MixColumns(st) ==
    MixColumn(SubSeq(st, 1, 4)) \o MixColumn(SubSeq(st, 5, 8))
        \o MixColumn(SubSeq(st, 9, 12)) \o MixColumn(SubSeq(st, 13, 16))

RECURSIVE CipherRounds(_, _)
\* The rounds of the cipher under the expanded key w: sts holds the state
\* after the initial AddRoundKey and after each round made so far. Round 14
\* has no MixColumns; the result is the state after it.
CipherRounds(sts, w) ==
    IF Len(sts) = 15 THEN sts[15]
    ELSE LET r   == Len(sts)
             sub == ShiftRows(SubBytes(sts[r]))
         IN  CipherRounds(Append(sts, XorBytes(IF r = 14 THEN sub ELSE MixColumns(sub),
                                               RoundKey(w, r))), w)

\* block.Encrypt: the AES encryption of one block of 16 bytes.
AESEncrypt(w, block) == CipherRounds(<<XorBytes(block, RoundKey(w, 0))>>, w)

\* The size of the authentication tag of the standard GCM.
TagSize == 16

\* A block as an element of GF(2^128) shifted right by one bit.
ShiftRight(v) ==
    AsSeq([j \in 1..16 |->
             (v[j] \div 2) + (IF j > 1 THEN (v[j - 1] % 2) * 128 ELSE 0)])

RECURSIVE GFMulBits(_, _, _, _)
\* The steps of the multiplication in GF(2^128) (SP 800-38D, 6.3, algorithm
\* 1) for the bits k..7 of one byte xb of x, the most significant first: a
\* bit 1 adds V to Z, and V is shifted and reduced. The result is <<Z, V>>.
GFMulBits(xb, z, v, k) ==
    IF k = 8 THEN <<z, v>>
    ELSE LET bit == (xb \div (2 ^ (7 - k))) % 2
             s   == ShiftRight(v)
         IN  GFMulBits(xb,
                       IF bit = 1 THEN XorBytes(z, v) ELSE z,
                       IF v[16] % 2 = 1 THEN <<XorBits(s[1], 225)>> \o Tail(s) ELSE s,
                       k + 1)

RECURSIVE GFMulBytes(_, _)
\* The multiplication byte by byte of x: steps holds <<Z, V>> before the
\* first byte and after each byte done so far. The product is the last Z.
GFMulBytes(x, steps) ==
    IF Len(steps) = 17 THEN steps[17][1]
    ELSE LET i == Len(steps)
         IN  GFMulBytes(x, Append(steps, GFMulBits(x[i], steps[i][1], steps[i][2], 0)))

\* The product of the blocks x and y in GF(2^128).
GFMul(x, y) == GFMulBytes(x, << <<Zeros(16), y>> >>)

\* d followed by zero bytes up to a multiple of 16 bytes.
PadTo16(d) == d \o Zeros((16 - (Len(d) % 16)) % 16)

RECURSIVE GHashBlocks(_, _, _)
\* GHASH under the hash key hk of a whole number of blocks (SP 800-38D,
\* 6.4, algorithm 2): ys holds Y_0 = 0 and the Y_i made so far,
\* Y_i = (Y_(i-1) xor X_i) * hk; the result is the last.
GHashBlocks(hk, ys, data) ==
    LET i == Len(ys)
    IN  IF 16 * (i - 1) >= Len(data) THEN ys[i]
        ELSE GHashBlocks(hk,
                         Append(ys, GFMul(XorBytes(ys[i], SubSeq(data, 16 * i - 15, 16 * i)),
                                          hk)),
                         data)

\* GHASH under the hash key hk of the additional data, the ciphertext and
\* their lengths in bits (SP 800-38D, 7.1, step 5).
GHash(hk, aad, ct) ==
    GHashBlocks(hk, <<Zeros(16)>>,
                PadTo16(aad) \o PadTo16(ct)
                    \o BigEndian(8 * Len(aad), 8) \o BigEndian(8 * Len(ct), 8))

RECURSIVE IncBytes(_)
\* The big-endian number b plus one, modulo 256^Len(b).
IncBytes(b) ==
    IF b = <<>> THEN <<>>
    ELSE IF b[Len(b)] < 255
         THEN SubSeq(b, 1, Len(b) - 1) \o <<b[Len(b)] + 1>>
    ELSE IncBytes(SubSeq(b, 1, Len(b) - 1)) \o <<0>>

\* The counter block with its last 32 bits incremented.
Inc32(cb) == SubSeq(cb, 1, 12) \o IncBytes(SubSeq(cb, 13, 16))

\* The first counter block for a nonce of 12 bytes.
J0(nonce) == nonce \o <<0, 0, 0, 1>>

RECURSIVE CTR(_, _, _)
\* The counter mode: data xored with the encryptions of the counter blocks
\* from cb on.
CTR(w, cb, data) ==
    IF data = <<>> THEN <<>>
    ELSE LET n == IF Len(data) < 16 THEN Len(data) ELSE 16
         IN  XorBytes(SubSeq(data, 1, n), AESEncrypt(w, cb))
                 \o CTR(w, Inc32(cb), SubSeq(data, n + 1, Len(data)))

\* The tag of the ciphertext ct under the nonce, with no additional data:
\* the encryption of the first counter block xored with the GHASH.
GCMTag(w, nonce, ct) ==
    XorBytes(AESEncrypt(w, J0(nonce)), GHash(AESEncrypt(w, Zeros(16)), <<>>, ct))

\* A gcm.Open that returns the plaintext without comparing the tag.
GCMOpenUnchecked(key, nonce, ciphertext) ==
    LET w  == NewCipher(key)
        ct == SubSeq(ciphertext, 1, Len(ciphertext) - TagSize)
    IN  IF Len(ciphertext) < TagSize THEN [ok |-> FALSE]
        ELSE [ok |-> TRUE, data |-> CTR(w, Inc32(J0(nonce)), ct)]

\* gcm.Seal(dst, nonce, plaintext, nil) under the cipher of key: dst
\* followed by the ciphertext and its tag.
GCMSeal(key, dst, nonce, plaintext) ==
    LET w  == NewCipher(key)
        ct == CTR(w, Inc32(J0(nonce)), plaintext)
    IN  dst \o ct \o GCMTag(w, nonce, ct)

\* gcm.Open(nil, nonce, ciphertext, nil) under the cipher of key: [ok, data];
\* it fails on fewer bytes than a tag and on a tag that is not the one of
\* the ciphertext.
GCMOpen(key, nonce, ciphertext) ==
    LET w   == NewCipher(key)
        ct  == SubSeq(ciphertext, 1, Len(ciphertext) - TagSize)
        tag == SubSeq(ciphertext, Len(ciphertext) - TagSize + 1, Len(ciphertext))
    IN  IF Len(ciphertext) < TagSize THEN [ok |-> FALSE]
        ELSE IF GCMTag(w, nonce, ct) # tag THEN [ok |-> FALSE]
        ELSE [ok |-> TRUE, data |-> CTR(w, Inc32(J0(nonce)), ct)]

\* The character of base64.StdEncoding for the 6 bits v, and the 6 bits of
\* a character, -1 for a character outside the alphabet.
EncodeChar(v) ==
    IF v < 26 THEN 65 + v
    ELSE IF v < 52 THEN 97 + (v - 26)
    ELSE IF v < 62 THEN 48 + (v - 52)
    ELSE IF v = 62 THEN 43 ELSE 47
DecodeChar(c) ==
    IF c >= 65 /\ c <= 90 THEN c - 65
    ELSE IF c >= 97 /\ c <= 122 THEN c - 97 + 26
    ELSE IF c >= 48 /\ c <= 57 THEN c - 48 + 52
    ELSE IF c = 43 THEN 62
    ELSE IF c = 47 THEN 63 ELSE -1

\* The padding character '='.
PadChar == 61

RECURSIVE EncodeToString(_)
\* base64.StdEncoding.EncodeToString(b).
EncodeToString(b) ==
    IF b = <<>> THEN <<>>
    ELSE IF Len(b) = 1
         THEN <<EncodeChar(b[1] \div 4), EncodeChar((b[1] % 4) * 16), PadChar, PadChar>>
    ELSE IF Len(b) = 2
         THEN <<EncodeChar(b[1] \div 4), EncodeChar((b[1] % 4) * 16 + (b[2] \div 16)),
                EncodeChar((b[2] % 16) * 4), PadChar>>
    ELSE <<EncodeChar(b[1] \div 4), EncodeChar((b[1] % 4) * 16 + (b[2] \div 16)),
           EncodeChar((b[2] % 16) * 4 + (b[3] \div 64)), EncodeChar(b[3] % 64)>>
             \o EncodeToString(SubSeq(b, 4, Len(b)))

RECURSIVE DecodeQuanta(_)
\* The bytes of a text of whole groups of 4 characters: [ok, raw]. Padding
\* may end the last group only.
DecodeQuanta(t) ==
    IF t = <<>> THEN [ok |-> TRUE, raw |-> <<>>]
    ELSE LET v1   == DecodeChar(t[1])
             v2   == DecodeChar(t[2])
             v3   == DecodeChar(t[3])
             v4   == DecodeChar(t[4])
             rest == DecodeQuanta(SubSeq(t, 5, Len(t)))
             fail == [ok |-> FALSE]
         IN  IF v1 < 0 \/ v2 < 0 THEN fail
             ELSE IF Len(t) = 4 /\ t[3] = PadChar /\ t[4] = PadChar
                  THEN [ok |-> TRUE, raw |-> <<v1 * 4 + (v2 \div 16)>>]
             ELSE IF v3 < 0 THEN fail
             ELSE IF Len(t) = 4 /\ t[4] = PadChar
                  THEN [ok |-> TRUE,
                        raw |-> <<v1 * 4 + (v2 \div 16), (v2 % 16) * 16 + (v3 \div 4)>>]
             ELSE IF v4 < 0 \/ ~rest.ok THEN fail
             ELSE [ok |-> TRUE,
                   raw |-> <<v1 * 4 + (v2 \div 16), (v2 % 16) * 16 + (v3 \div 4),
                             (v3 % 4) * 64 + v4>> \o rest.raw]

\* A character the decoder does not skip: any but '\r' and '\n'.
NotNewline(c) == c \notin {10, 13}

\* base64.StdEncoding.DecodeString(text): [ok, raw].
DecodeString(text) ==
    LET t == SelectSeq(text, NotNewline)
    IN  IF Len(t) % 4 # 0 THEN [ok |-> FALSE] ELSE DecodeQuanta(t)

\* encrypt(data, password) with the nonce drawn: the base64 text of the
\* nonce, the ciphertext and the tag.
encrypt(data, password, nonce) ==
    EncodeToString(GCMSeal(Sum256(password), nonce, nonce, data))

\* decrypt(encData, password): [ok, data] or [ok, err].
decrypt(encData, password) ==
    LET d == DecodeString(encData)
        o == GCMOpen(Sum256(password), SubSeq(d.raw, 1, NonceSize),
                     SubSeq(d.raw, NonceSize + 1, Len(d.raw)))
    IN  IF ~d.ok THEN [ok |-> FALSE, err |-> "base64"]
        ELSE IF Len(d.raw) < NonceSize THEN [ok |-> FALSE, err |-> "short"]
        ELSE IF ~o.ok THEN [ok |-> FALSE, err |-> "open"]
        ELSE [ok |-> TRUE, data |-> o.data]

\* The data encrypted: the short values of Part IV and the JSON text of the
\* repository's test (config_test.go:22), which fills more than two blocks.
JSONData ==
    <<123, 34, 117, 115, 101, 114, 110, 97, 109, 101, 34, 58, 34, 117, 115, 101,
      114, 34, 44, 34, 112, 97, 115, 115, 119, 111, 114, 100, 34, 58, 34, 112,
      97, 115, 115, 34, 125>>
CipherData == DataValues \cup {JSONData}

\* The 12 bytes that stand for the n-th random nonce.
NonceBytes(n) == AsSeq([i \in 1..NonceSize |-> (255 * n) % 256])

\* encrypt(data, password): its text becomes the input of decrypt.
CipherEncrypt ==
    /\ res.kind = "args"
    /\ \E n \in Nonces :
         res' = [res EXCEPT !.kind = "encrypted",
                            !.encData = encrypt(res.data, res.password, NonceBytes(n))]
    /\ UNCHANGED <<h, srv, store, life>>

\* decrypt(encData, other) of the text encrypt returned.
CipherDecrypt ==
    /\ res.kind = "encrypted"
    /\ res' = [res EXCEPT !.kind = "decrypted", !.out = decrypt(res.encData, res.other)]
    /\ UNCHANGED <<h, srv, store, life>>

\* The arguments drawn, nothing called yet.
InitCipher ==
    /\ h = [c \in Conns |-> IdleConn]
    /\ srv = [config |-> EmptyConfig, wg |-> 0, waiters |-> 0, sema |-> 0]
    /\ store = [host |-> NoFile, creds |-> NoFile]
    /\ life = IdleLife
    /\ \E data \in CipherData, password \in PassphraseArgs, other \in PassphraseArgs :
         res = [kind |-> "args", data |-> data, password |-> password,
                other |-> other, encData |-> <<>>,
                out |-> [ok |-> FALSE, err |-> "none"]]

NextCipher == CipherEncrypt \/ CipherDecrypt

\* encrypt and decrypt computed on arguments drawn from the sets above.
SpecCipher == InitCipher /\ [][NextCipher]_vars

(***************************************************************************)
(* Properties of the relay engine                                          *)
(***************************************************************************)

HandshakeErrors == {"hs_read", "hs_version", "hs_write"}
RequestErrors == {"req_read", "req_version", "req_atyp", "req_write"}
ReturnPath == {"ret_upstream", "ret_wg", "ret_release", "ret_client", "done"}

\* What the client sent, read off its script: the hello and the request.
HelloComplete(script) == Len(script) >= 2 /\ Len(script) >= 2 + script[2]
RequestOf(script) == Drop(script, 2 + script[2] + 1)

\* Length of the address field of a request header followed by `rest`.
AddrFieldLen(atyp, rest) ==
    CASE atyp = 1 -> 4
      [] atyp = 4 -> 16
      [] atyp = 3 -> IF Len(rest) >= 1 THEN 1 + rest[1] ELSE 1
      [] OTHER -> 0

\* The client sent a whole request (header, address, port) of a supported type.
RequestComplete(script) ==
    /\ HelloComplete(script)
    /\ LET rq == RequestOf(script)
       IN  /\ Len(rq) >= 4
           /\ rq[4] \in {1, 3, 4}
           /\ Len(rq) >= 4 + AddrFieldLen(rq[4], Drop(rq, 5)) + 2

\* The raw address bytes and the two port bytes of a complete request.
RawAddr(script) ==
    LET rq == RequestOf(script)
        n  == AddrFieldLen(rq[4], Drop(rq, 5))
    IN  IF rq[4] = 3 THEN SubSeq(rq, 6, 4 + n) ELSE SubSeq(rq, 5, 4 + n)
PortBytes(script) ==
    LET rq == RequestOf(script)
        n  == AddrFieldLen(rq[4], Drop(rq, 5))
    IN  SubSeq(rq, 4 + n + 1, 4 + n + 2)

\* Phase 1 / phase 2 / phase 4 of the handler has run to its end.
Phase1Ran(s) == s.pc \notin {"idle"} \cup HandshakePcs
Phase2Ran(s) ==
    /\ s.pc \notin {"idle"} \cup HandshakePcs \cup RequestPcs
    /\ s.err \notin HandshakeErrors
Phase4Ran(s) == s.deferUp /\ s.pc \notin ForwardPcs

\* The client has been sent the 10-byte success reply (after the 2-byte
\* method selection).
HasSuccessReply(s) == Len(s.cout) >= 12 /\ SubSeq(s.cout, 3, 12) = SuccessReply

\* C1: when the upstream answers the authentication sub-negotiation with a
\* failure status, the client connection is closed and the client has never
\* been sent the 10-byte success reply.
C1_AuthFailureNoSuccessReply ==
    \A c \in Conns :
        h[c].err = "auth" =>
            /\ h[c].pc = "done" => h[c].cclosed
            /\ ~HasSuccessReply(h[c])

\* The textual form of the address of a complete request: dotted decimal,
\* the name's bytes, or what net.IP.String gives for the 16 bytes.
AddrText(script) ==
    LET atyp == RequestOf(script)[4]
    IN  IF atyp = 3 THEN RawAddr(script) ELSE IPString(RawAddr(script))

\* The bytes written to the upstream after the greeting and the
\* authentication message.
AfterAuth(s) == Drop(s.uout, 3 + Len(AuthMessage(srv.config)) + 1)

\* C2: for every accepted client request, of whatever address type, once
\* upstream authentication has succeeded the relay sends the upstream the
\* CONNECT request {5,1,0,3,len(host),host,port-high,port-low} whose host is
\* the text of the client's address and whose port is the client's port
\* (unless the write itself fails).
C2_ConnectRequestForEveryAddressType ==
    \A c \in Conns :
        (Phase4Ran(h[c]) /\ h[c].err # "fwd_write") =>
            LET host == AddrText(h[c].script)
                want == <<VERSION, 1, 0, 3, Len(host)>> \o host \o PortBytes(h[c].script)
            IN  /\ Len(AfterAuth(h[c])) >= Len(want)
                /\ SubSeq(AfterAuth(h[c]), 1, Len(want)) = want

\* C3: a handler that has returned has closed both of its sockets: after a
\* failure in phase 1 or 2 or of the dial there is no upstream socket and
\* the client socket is closed; after a failure of the upstream
\* handshake/authentication or CONNECT, and after the splice, the client
\* socket and the upstream socket are both closed.
C3_BothSocketsClosedOnExit ==
    \A c \in Conns :
        h[c].pc = "done" =>
            /\ h[c].cclosed
            /\ h[c].ustate # "open"
            /\ h[c].err \in HandshakeErrors \cup RequestErrors \cup {"dial"}
                   => h[c].ustate = "none"
            /\ h[c].err \notin HandshakeErrors \cup RequestErrors \cup {"dial"}
                   => h[c].ustate = "closed"

\* A handler returned from a completed splice with both sockets closed.
C3_Witness ==
    \E c \in Conns :
        /\ h[c].pc = "done" /\ h[c].err = "none"
        /\ h[c].cu = "done" /\ h[c].uc = "done"
        /\ h[c].cclosed /\ h[c].ustate = "closed"

\* C4: for every hello whose first byte is 5 and that carries all of its N
\* announced method bytes (N = 0 included, and whatever the methods are), the
\* handshake does not fail on the input and what is written to the client is
\* exactly {5,0}; nothing is written only when the write itself fails.
C4_HandshakeRepliesNoAuth ==
    \A c \in Conns :
        (Phase1Ran(h[c]) /\ HelloComplete(h[c].script) /\ h[c].script[1] = VERSION) =>
            /\ h[c].err \notin {"hs_read", "hs_version"}
            /\ h[c].err = "hs_write" => h[c].cout = <<>>
            /\ h[c].err # "hs_write" =>
                   /\ Len(h[c].cout) >= 2
                   /\ SubSeq(h[c].cout, 1, 2) = <<VERSION, 0>>
            /\ h[c].pc = "request" => h[c].cout = <<VERSION, 0>>

\* The handshake succeeded for a hello that does not offer method 0x00.
C4_Witness ==
    \E c \in Conns :
        /\ h[c].pc = "request" /\ h[c].cout = <<VERSION, 0>>
        /\ \A i \in 3..(2 + h[c].script[2]) : h[c].script[i] # 0
        /\ h[c].script[2] > 0

\* C5: a version byte other than 5 in the hello or in the request, or an
\* address type other than 1, 3, 4, makes that phase return an error; the
\* handler returns without dialling the upstream, and the success reply of
\* that phase ({5,0}, respectively the 10-byte reply) is not written.
C5_BadVersionOrTypeFails ==
    \A c \in Conns :
        LET s  == h[c]
            rq == RequestOf(s.script)
        IN  /\ (Phase1Ran(s) /\ Len(s.script) >= 2 /\ s.script[1] # VERSION) =>
                   /\ s.err = "hs_version" /\ s.cout = <<>>
                   /\ s.pc \in ReturnPath /\ s.ustate = "none"
            /\ (Phase2Ran(s) /\ Len(rq) >= 4 /\ rq[1] # VERSION) =>
                   /\ s.err = "req_version" /\ s.cout = <<VERSION, 0>>
                   /\ s.pc \in ReturnPath /\ s.ustate = "none"
            /\ (Phase2Ran(s) /\ Len(rq) >= 4 /\ rq[1] = VERSION /\ rq[4] \notin {1, 3, 4}) =>
                   /\ s.err = "req_atyp" /\ s.cout = <<VERSION, 0>>
                   /\ s.pc \in ReturnPath /\ s.ustate = "none"

\* A handler that returned on an unsupported address type, the client having
\* been sent the method selection only.
C5_Witness ==
    \E c \in Conns :
        /\ h[c].pc = "done" /\ h[c].err = "req_atyp"
        /\ h[c].cout = <<VERSION, 0>> /\ h[c].cclosed

\* The standard text forms of the 16 bytes of an IPv6 address: the form of
\* RFC 5952 and, for an IPv4-mapped address, the mixed form ::ffff:a.b.c.d.
V6Texts(b) ==
    {V6Text(b)} \cup
        (IF IsV4Mapped(b)
         THEN {<<Colon, Colon, 102, 102, 102, 102, Colon>>
                   \o DottedDecimal(SubSeq(b, 13, 16))}
         ELSE {})

\* The targets a complete version-5 request may resolve to as the claim
\* has it.
ExpectedTargets(script) ==
    LET atyp  == RequestOf(script)[4]
        raw   == RawAddr(script)
        pb    == PortBytes(script)
        texts == CASE atyp = 1 -> {DottedDecimal(raw)}
                   [] atyp = 3 -> {raw}
                   [] atyp = 4 -> V6Texts(raw)
    IN  {text \o <<Colon>> \o Dec(256 * pb[1] + pb[2]) : text \in texts}

\* C6: for every complete version-5 request handleRequest returns the target
\* "<address>:<port>" with port = 256*high + low and address the dotted
\* decimal of the 4 bytes, the domain bytes verbatim, or a standard IPv6
\* text form of the 16 bytes, and exactly the 10-byte reply is written to
\* the client (a failing conn.Write apart).
C6_TargetStandardIPv6 ==
    \A c \in Conns :
        LET s == h[c]
        IN  (Phase2Ran(s) /\ RequestComplete(s.script)
                 /\ RequestOf(s.script)[1] = VERSION /\ s.err # "req_write") =>
                /\ s.err \notin RequestErrors
                /\ s.target \in ExpectedTargets(s.script)
                /\ Len(s.cout) >= 12
                /\ SubSeq(s.cout, 1, 12) = <<VERSION, 0>> \o SuccessReply
                /\ s.pc = "dial" => s.cout = <<VERSION, 0>> \o SuccessReply

\* The bytes each copy direction has read from its source and written to its
\* destination since forwardTraffic started.
ReadFromClient(s) == SubSeq(s.cinAt, 1, Len(s.cinAt) - Len(s.cin))
WrittenToUpstream(s) == Drop(s.uout, s.uoutAt + 1)
ReadFromUpstream(s) == SubSeq(s.uinAt, 1, Len(s.uinAt) - Len(s.uin))
WrittenToClient(s) == Drop(s.cout, s.coutAt + 1)

\* C7: in the splice, the bytes written to the upstream are the bytes read
\* from the client, in order, nothing lost, repeated or changed, up to the
\* chunk just read and about to be written; likewise from the upstream to
\* the client. A direction that has ended has delivered its whole stream.
\* (A direction whose Write failed has ended without its last chunk.)
C7_SplicePreservesStreams ==
    \A c \in Conns :
        LET s == h[c]
        IN  s.cu # "idle" =>
              /\ ~s.cufail => WrittenToUpstream(s) \o s.cubuf = ReadFromClient(s)
              /\ ~s.ucfail => WrittenToClient(s) \o s.ucbuf = ReadFromUpstream(s)
              /\ (s.cu = "done" /\ ~s.cufail) => WrittenToUpstream(s) = s.cinAt
              /\ (s.uc = "done" /\ ~s.ucfail) => WrittenToClient(s) = s.uinAt

\* A splice that carried payload both ways to the end.
C7_Witness ==
    \E c \in Conns :
        /\ h[c].pc = "done" /\ h[c].err = "none"
        /\ ~h[c].cufail /\ ~h[c].ucfail
        /\ Len(h[c].cinAt) = 2 /\ Len(h[c].uinAt) = 2
        /\ WrittenToUpstream(h[c]) = h[c].cinAt
        /\ WrittenToClient(h[c]) = h[c].uinAt


(***************************************************************************)
(* Properties of the credential store                                      *)
(***************************************************************************)

\* The last call found an encrypted credential record on disk.
FoundCreds == res.kind = "returned" /\ res.before.creds.exists

\* The last call returned an error and no parameters.
ReturnedError(e) == res.out = [kind |-> "error", err |-> e]

\* All four required fields of a config are set.
Complete(cfg) ==
    /\ cfg.UpstreamHost # <<>> /\ cfg.UpstreamPort # 0
    /\ cfg.Username # <<>> /\ cfg.Password # <<>>

\* C8: whenever an encrypted credential record exists, LoadOrCreate called
\* with an empty passphrase returns ErrEncryptionPasswordRequired and no
\* parameters, whatever the other arguments are.
C8_PassphraseRequired ==
    (FoundCreds /\ res.args.encpass = <<>>) =>
        ReturnedError("ErrEncryptionPasswordRequired")

\* The passphrase-required error was returned to a call that supplied
\* username, password, host and port.
C8_Witness ==
    /\ FoundCreds /\ res.args.encpass = <<>>
    /\ res.args.username # <<>> /\ res.args.password # <<>>
    /\ res.args.upstreamHost # <<>> /\ res.args.upstreamPort # 0
    /\ ReturnedError("ErrEncryptionPasswordRequired")

\* The passphrase the record found by the last call was sealed with differs
\* from the non-empty passphrase of the call.
WrongPassphrase ==
    /\ FoundCreds /\ res.args.encpass # <<>>
    /\ Base64Decode(res.before.creds.data).ok
    /\ res.before.creds.data.base64.box.key # Key(res.args.encpass)

\* C9: with an encrypted credential record on disk, LoadOrCreate called with
\* a non-empty passphrase other than the one the record was sealed with
\* returns an error, which is not ErrEncryptionPasswordRequired, and no
\* parameters.
C9_WrongPassphraseFails ==
    WrongPassphrase =>
        /\ res.out.kind = "error"
        /\ res.out.err = "decrypt_failed"
        /\ res.out.err # "ErrEncryptionPasswordRequired"
        /\ DOMAIN res.out = {"kind", "err"}

\* A call with the wrong passphrase and a full set of arguments failed.
C9_Witness ==
    /\ WrongPassphrase
    /\ res.args.username # <<>> /\ res.args.password # <<>>
    /\ res.args.upstreamHost # <<>> /\ res.args.upstreamPort # 0
    /\ ReturnedError("decrypt_failed")

\* C10: every successful LoadOrCreate returns a config whose host, username
\* and password are non-empty and whose port is non-zero; when the values
\* merged from the files and the arguments leave one of the four empty or
\* zero, the call fails and returns no parameters.
C10_ResolvedConfigComplete ==
    res.kind = "returned" =>
        LET lc == LoadCreds(res.before, res.args.encpass)
            m  == Merge(lc.cfg, res.before, res.args.username, res.args.password,
                        res.args.upstreamHost, res.args.upstreamPort)
        IN  /\ res.out.kind = "ok" => Complete(res.out.cfg)
            /\ (lc.err = "" /\ ~Complete(m)) =>
                   /\ res.out.kind = "error"
                   /\ DOMAIN res.out = {"kind", "err"}

\* A call that had host and port (from the host file) but no password failed.
C10_Witness ==
    /\ res.kind = "returned"
    /\ res.before.host.exists /\ ~res.before.creds.exists
    /\ res.args.upstreamHost = <<>> /\ res.args.upstreamPort = 0
    /\ res.args.username # <<>> /\ res.args.password = <<>>
    /\ ReturnedError("credentials_required")

(***************************************************************************)
(* Properties of the credential store: persistence                         *)
(***************************************************************************)

\* The arguments of a reload: nothing but the passphrase.
ReloadArgs(encpass) ==
    [username |-> <<>>, password |-> <<>>, encpass |-> encpass,
     upstreamHost |-> <<>>, upstreamPort |-> 0]

\* Two stores hold the same records: the same host file, and credential
\* files that decrypt under the passphrase to the same plaintext (the nonce,
\* drawn afresh by every encrypt, may differ).
StoreEquivalent(s1, s2, encpass) ==
    /\ s1.host = s2.host
    /\ s1.creds.exists = s2.creds.exists
    /\ s1.creds.exists =>
         Decrypt(s1.creds.data, encpass) = Decrypt(s2.creds.data, encpass)

\* C11: after a successful LoadOrCreate with a non-empty passphrase P, a
\* following LoadOrCreate("", "", P, "", 0) succeeds, returns exactly the
\* username, password, host and port the first call returned, and leaves the
\* stored records equivalent; repeated, each reload is again such a
\* successful call, so the same holds for every further reload.
C11_PersistenceRoundTrip ==
    [][(/\ res.kind = "returned" /\ res.out.kind = "ok"
        /\ res.args.encpass # <<>>
        /\ res'.args = ReloadArgs(res.args.encpass))
       => (/\ res'.out = res.out
           /\ StoreEquivalent(store, store', res.args.encpass))]_vars

(***************************************************************************)
(* Properties of encrypt and decrypt                                       *)
(***************************************************************************)

\* decrypt has been applied to the text encrypt returned, both computed
\* byte by byte.
DecryptedEncrypted == res.kind = "decrypted"

\* C12: for every data (the empty data included) and passphrase pw,
\* decrypt(encrypt(data, pw), pw) returns data and no error; for passphrases
\* pw1 # pw2, decrypt(encrypt(data, pw1), pw2) returns an error and no data.
C12_EncryptDecryptRoundTrip ==
    DecryptedEncrypted =>
        IF res.other = res.password
        THEN res.out = [ok |-> TRUE, data |-> res.data]
        ELSE ~res.out.ok /\ "data" \notin DOMAIN res.out

\* The empty data went through encrypt and decrypt under one non-empty
\* passphrase and came back without error: the text decrypt opened holds a
\* nonce and a tag and nothing else.
C12_Witness ==
    /\ DecryptedEncrypted
    /\ res.data = <<>> /\ res.password # <<>> /\ res.other = res.password
    /\ DecodeString(res.encData).ok
    /\ Len(DecodeString(res.encData).raw) = NonceSize + TagSize
    /\ res.out = [ok |-> TRUE, data |-> <<>>]

\* decrypt has been applied to a text that is no base64 text, or to the
\* base64 text of fewer bytes than a nonce (of no bytes: the empty input).
DecryptedInvalid ==
    /\ res.kind = "decrypted" /\ ~res.sealed
    /\ \/ res.encData = NotBase64
       \/ \E n \in 0..(NonceSize - 1) : res.encData = Base64Encode(Junk(n))

\* C13: decrypt returns an error and no data, and does not panic, for every
\* input that is not valid base64, for the empty input, and for every valid
\* base64 input that decodes to fewer bytes than a nonce.
C13_DecryptRejectsInvalid ==
    DecryptedInvalid =>
        /\ ~res.out.ok /\ "data" \notin DOMAIN res.out
        /\ res.out.err \in {"base64", "short"}

\* decrypt refused the base64 text of one byte less than a nonce as too short.
C13_Witness ==
    /\ DecryptedInvalid
    /\ res.encData = Base64Encode(Junk(NonceSize - 1))
    /\ res.out = [ok |-> FALSE, err |-> "short"]

\* The configuration errors of LoadOrCreate.
ConfigErrors ==
    {"ErrEncryptionPasswordRequired", "decrypt_failed", "parse_failed",
     "host_parse_failed", "host_port_required", "credentials_required"}

\* C14: whenever LoadOrCreate returns a configuration error (passphrase
\* required, decrypt or parse failure, missing required field), the host
\* file and the credentials file are exactly as the call found them.
C14_ErrorLeavesStoreUntouched ==
    (res.kind = "returned" /\ res.out.kind = "error") =>
        /\ res.out.err \in ConfigErrors
        /\ store = res.before

\* A call that brought a new host and port but no password, with a host file
\* of other values on disk, failed and left that file as it was.
C14_Witness ==
    /\ res.kind = "returned" /\ ReturnedError("credentials_required")
    /\ res.before.host.exists /\ ~res.before.creds.exists
    /\ res.args.upstreamHost # <<>>
    /\ res.args.upstreamHost # res.before.host.data.upstream_host
    /\ store = res.before

\* p occurs in t as a run of consecutive bytes.
Contains(t, p) ==
    \E i \in 1..(Len(t) - Len(p) + 1) : SubSeq(t, i, i + Len(p) - 1) = p

\* Every string a reader of the files st can get at, even one who knows the
\* passphrase: the host of the host file and the strings of the record
\* sealed in the credentials file.
PersistedStrings(st) ==
    (IF st.host.exists /\ UnmarshalHost(st.host.data).ok
     THEN {st.host.data.upstream_host} ELSE {})
    \cup
    (IF st.creds.exists /\ Base64Decode(st.creds.data).ok
        /\ UnmarshalConfig(st.creds.data.base64.box.plain).ok
     THEN LET plain == st.creds.data.base64.box.plain
          IN  {plain.Username, plain.Password, plain.UpstreamHost}
     ELSE {})

\* The last call, LoadOrCreate or SaveConfig, succeeded and so wrote.
Wrote == res.kind \in {"returned", "saved"} /\ res.out.kind = "ok"

\* The host files written by the calls that differ from the last call in
\* username, password or passphrase only and that succeed as well.
SiblingHostFiles ==
    IF res.kind = "returned"
    THEN {r.store.host :
            r \in {x \in {LoadOrCreate(res.before, u, p, e, res.args.upstreamHost,
                                       res.args.upstreamPort, n) :
                            u \in UsernameArgs, p \in PasswordArgs,
                            e \in PassphraseArgs, n \in Nonces} :
                     x.out.kind = "ok"}}
    ELSE {SaveConfig(res.before, cfg, e, n).host :
            cfg \in {c \in SaveConfigs :
                       /\ c.UpstreamHost = res.args.cfg.UpstreamHost
                       /\ c.UpstreamPort = res.args.cfg.UpstreamPort},
            e \in PassphraseArgs, n \in Nonces}

\* C15: the host file written by LoadOrCreate or SaveConfig is a function of
\* the upstream host and port alone: it is the JSON of exactly these two, and
\* every call that differs only in username, password or passphrase writes
\* the identical host file; and no stored record, the unsealed credentials
\* record included, contains a passphrase (the passphrases are drawn from a
\* set disjoint from all other arguments, so an occurrence is a leak).
C15_PassphraseNeverPersisted ==
    /\ Wrote =>
         /\ store.host = File(MarshalHost(res.out.cfg.UpstreamHost,
                                          res.out.cfg.UpstreamPort))
         /\ SiblingHostFiles = {store.host}
    /\ \A e \in PassphraseArgs \ {<<>>}, t \in PersistedStrings(store) :
         ~Contains(t, e)

\* SaveConfig under a passphrase overwrote a credentials file that had been
\* sealed under another one: both files exist, written with passphrases.
C15_Witness ==
    /\ res.kind = "saved" /\ res.args.encpass # <<>>
    /\ res.before.creds.exists /\ Base64Decode(res.before.creds.data).ok
    /\ res.before.creds.data.base64.box.key # Key(res.args.encpass)
    /\ store.host.exists /\ store.creds.exists
    /\ store.creds.data.base64.box.key = Key(res.args.encpass)

(***************************************************************************)
(* Properties of the relay engine: the authentication message              *)
(***************************************************************************)

\* The bytes the relay wrote to the upstream after its 3-byte greeting.
AfterGreeting(s) == Drop(s.uout, 4)

\* An authentication message whose length bytes count the bytes that follow.
WellFormedAuth(username, password) ==
    <<1, Len(username)>> \o username \o <<Len(password)>> \o password

\* C16: a username or password longer than 255 bytes is rejected by the
\* validation of LoadOrCreate, so the relay never runs with one; and whenever
\* the relay has sent the upstream an authentication message, each of its
\* length bytes equals the number of username (or password) bytes that
\* follow it.
C16_AuthLengthBytesExact ==
    \A c \in Conns :
        AfterGreeting(h[c]) # <<>> =>
            /\ (Len(srv.config.Username) > 255 \/ Len(srv.config.Password) > 255)
                   => Validate(srv.config) # ""
            /\ SubSeq(AfterGreeting(h[c]), 1, Len(AuthMessage(srv.config)))
                   = WellFormedAuth(srv.config.Username, srv.config.Password)

(***************************************************************************)
(* Properties of the server lifecycle                                      *)
(***************************************************************************)

\* A call of Start is in progress; it has bound its listener; it has returned.
StartRunning == life.start.pc \notin {"none", "returned"}
StartBound == life.start.l # 0
StartReturned == life.start.pc = "returned"

\* Stop has been called at least once.
StopCalled == life.stop.calls > 0

\* The listening socket of the current call of Start is closed.
ListenerClosed == StartBound /\ life.socks[life.start.l] = "closed"

\* C17: Start blocks until the server is stopped. Once its listener is bound
\* Start returns nothing but nil, and it has not returned nil unless Stop
\* has signalled cancellation or closed the listener; an accept error on an
\* open listener never makes Start return; and wherever Stop is called while
\* Start runs, before the listener is bound, after, or while Accept blocks,
\* Start eventually returns.
C17_StartBlocksUntilStopped ==
    /\ []((StartReturned /\ StartBound) => life.start.ret = "nil")
    /\ []((StartReturned /\ life.start.ret = "nil") =>
              (srv.cancelled \/ ListenerClosed))
    /\ [][(life.start.pc = "accept" /\ life.socks[life.start.l] = "open")
             => life'.start.pc # "returned"]_vars
    /\ ((StartRunning /\ StopCalled) ~> StartReturned)

\* A call of Stop is in progress; it has returned.
StopRunning == life.stop.pc \in {"cancel", "close", "closing", "wait"}
StopReturned == life.stop.pc = "returned"

\* The timer of the Stop in progress has fired: its five seconds have passed.
TimerFired == life.stop.timer = "fired"

\* No connection is active: every handler goroutine that was started has
\* returned, its deferred wg.Done() and client.Close() included.
NoActiveConnection == \A c \in Clients : h[c].pc \in {"idle", "done"}

C18_WitnessNeverStarted ==
    /\ StopReturned /\ life.stop.path = "done"
    /\ srv.listener = 0 /\ life.start.calls = 0

\* C19: a Start called after a Stop has returned never accepts a connection
\* and starts no handler, and returns without error (unless another process
\* holds the address); a second Stop changes neither the cancellation signal
\* nor the handler tracker, and returns.
C19_RestartAndSecondStopSafe ==
    /\ [](life.start.afterStop =>
            /\ life.start.pc \notin {"accept", "dispatch"}
            /\ life.start.dispatched = 0)
    /\ []((life.start.afterStop /\ StartReturned) =>
              life.start.ret \in {"nil", "listen_failed_taken"})
    /\ [][(life'.stop.calls > 1 /\ life'.stop.pc # life.stop.pc) =>
              (srv'.cancelled = srv.cancelled /\ srv'.wg = srv.wg)]_vars
    /\ ((life.stop.calls > 1 /\ StopRunning) ~> StopReturned)

(***************************************************************************)
(* Properties of concurrent connections                                    *)
(***************************************************************************)

\* Handler c has been started and has not returned; it failed.
Running(c) == h[c].pc \notin {"idle", "done"}
Failed(c) == h[c].err # "none"

\* C20: per-connection errors are isolated. A step of a handler, a failing
\* one included, changes the record (phase, sockets, bytes written) of no
\* other handler and not the accept loop; the listener bound by Start stays
\* open and Start does not return, whatever the handlers do; and every
\* client that sent a whole hello of version 5 is sent {5,0} unless the
\* write to that same client fails.
C20_HandlerErrorsIsolated ==
    /\ [][\A c \in Clients :
            (h[c].pc # "idle" /\ h'[c] # h[c]) =>
                /\ \A d \in Clients \ {c} : h'[d] = h[d]
                /\ life' = life]_vars
    /\ [](StartBound =>
            (life.socks[life.start.l] = "open" /\ ~StartReturned))
    /\ [](\A c \in Clients :
            (Phase1Ran(h[c]) /\ HelloComplete(h[c].script)
                 /\ h[c].script[1] = VERSION /\ h[c].err # "hs_write") =>
                (Len(h[c].cout) >= 2 /\ SubSeq(h[c].cout, 1, 2) = <<VERSION, 0>>))

\* The first handler failed on its upstream's rejection; the second client
\* was accepted after that and has its {5,0}, its handler still running.
C20_Witness ==
    /\ h[1].err = "auth" /\ h[1].pc = "done"
    /\ Running(2) /\ ~Failed(2) /\ h[2].cout = <<VERSION, 0>>
    /\ life.start.pc = "accept" /\ life.socks[life.start.l] = "open"

(***************************************************************************)
(* Properties of shutdown                                                  *)
(***************************************************************************)

\* The handler of connection c holds the tracker: it was dispatched
\* (s.wg.Add(1)) and has not yet run its deferred s.wg.Done().
Tracked(c) == h[c].pc \notin {"idle", "ret_release", "ret_client", "done"}

\* The last call of Stop returned through the closed done channel, before
\* the grace period elapsed.
StopReturnedDone == StopReturned /\ life.stop.path = "done"

\* C21: when Stop has returned without the grace period having elapsed,
\* every handler dispatched by Start has finished, and none is started
\* afterwards: no handler holds the tracker while the last Stop is one that
\* returned through done.
C21_StopDoneAfterAllHandlers ==
    StopReturnedDone => \A c \in Handlers : ~Tracked(c)

\* C22: once Stop has signalled cancellation the accept loop dispatches no
\* further connection: the step s.wg.Add(1); go s.handleConnection(conn) is
\* never taken for a connection that Accept returned after the signal.
C22_NoDispatchAfterCancel ==
    [][(life.start.pc = "dispatch" /\ life'.start.pc # "dispatch")
          => ~life.start.late]_vars

\* Start is at s.listener = listener (proxy.go:41): its next step writes the
\* field listener of the server.
StartWritesListener == life.start.pc = "store"

\* Stop is at if s.listener != nil (proxy.go:68): its next step reads the
\* field listener of the server.
StopReadsListener == life.stop.pc = "close"

\* C23: Start, Stop and the handlers share nothing but the cancellation
\* signal and the handler tracker: in no reachable state is one of them
\* about to write a field of the server while another is about to read or
\* write the same field, with nothing ordering the two accesses.
C23_NoUnsynchronisedAccess ==
    ~(StartWritesListener /\ StopReadsListener)

\* C24: Stop always eventually returns, even when a handler never finishes:
\* every call of Stop in progress leads to its return; it leaves its wait
\* through done only once the waiter has closed that channel, else through
\* the timer branch once the timer has fired, and that step is a return
\* like any other: it changes nothing but the position of Stop, no handler
\* and no field of the server (a logged warning, no error value and no
\* crash).
C24_StopAlwaysReturns ==
    /\ (StopRunning ~> StopReturned)
    /\ [](StopReturned => life.stop.path \in {"done", "timeout"})
    /\ [][(life.stop.pc = "wait" /\ life'.stop.pc # "wait") =>
            /\ life'.stop.pc = "returned"
            /\ life'.stop.path = "done" => StopDoneReady
            /\ life'.stop.path = "timeout" => TimerFired
            /\ ~StopDoneReady => life'.stop.path = "timeout"
            /\ life'.start = life.start /\ life'.socks = life.socks
            /\ h' = h /\ srv' = srv]_vars

\* C25: Stop never interrupts an in-flight handler. No step of Stop, on the
\* way to a normal return or to the return by the timer, changes the record
\* of a handler (its phase, its client socket, its upstream socket, the
\* bytes read and written) or the tracker, and the only socket a step of
\* Stop changes is the listening socket s.listener, which it closes.
C25_StopLeavesHandlersAlone ==
    [][(life'.stop.pc # life.stop.pc) =>
          /\ h' = h
          /\ srv'.wg = srv.wg
          /\ Len(life'.socks) = Len(life.socks)
          /\ \A l \in 1..Len(life.socks) :
               life'.socks[l] # life.socks[l] =>
                   (l = srv.listener /\ life'.socks[l] = "closed")]_vars

\* Stop returned by the timer while the handler was in the splice, its
\* client and upstream sockets open.
C25_Witness ==
    /\ StopReturned /\ life.stop.path = "timeout"
    /\ \E c \in Handlers :
         /\ h[c].pc = "splice" /\ ~h[c].cclosed /\ h[c].ustate = "open"
         /\ h[c].err = "none"
    /\ ListenerClosed

\* Stop returned through done after the handler had run the splice to its
\* end and closed both sockets itself.
C25_WitnessDone ==
    /\ StopReturnedDone /\ life.stop.busy
    /\ \E c \in Handlers :
         /\ h[c].pc = "done" /\ h[c].cu = "done" /\ h[c].uc = "done"
         /\ h[c].cclosed /\ h[c].ustate = "closed"

(***************************************************************************)
(* Properties of the order of the phases                                   *)
(***************************************************************************)

\* The number of the phase a handler stands before; 6 once it returns.
PhaseRank(pc) ==
    CASE pc = "idle"                   -> 0
      [] pc \in HandshakePcs           -> 1
      [] pc \in RequestPcs             -> 2
      [] pc \in UpstreamPcs            -> 3
      [] pc \in ForwardPcs             -> 4
      [] pc \in {"traffic", "splice"}  -> 5
      [] OTHER                         -> 6

\* The positions of the five phases in the order of the code, and the place
\* of a position in that order.
PhasePositions ==
    <<"handshake", "hs_methods", "hs_reply",
      "request", "rq_len", "rq_addr", "rq_port", "rq_reply",
      "dial", "up_greet", "up_method", "up_auth", "up_status",
      "forward", "fwd_reply", "traffic", "splice">>
PositionOf(pc) == CHOOSE i \in 1..Len(PhasePositions) : PhasePositions[i] = pc

\* An upstream connection has been opened for handler s.
Dialled(s) == s.ustate # "none" \/ s.uout # <<>>

\* C26: within one connection the phases run in the order 1..5. Whenever a
\* handler moves, it moves forward inside its phase or to the first position
\* of the next phase, the one before having ended without error, or onto
\* its return, from which it never comes back to a phase (so no phase runs
\* twice); and no upstream connection exists before the client's request
\* has been parsed and answered with the success reply.
C26_PhasesInOrder ==
    /\ [][\A c \in Conns :
            h'[c].pc # h[c].pc =>
                \/ /\ h[c].pc \notin ReturnPath /\ h'[c].pc \notin ReturnPath
                   /\ PositionOf(h'[c].pc) > PositionOf(h[c].pc)
                   /\ PhaseRank(h'[c].pc) <= PhaseRank(h[c].pc) + 1
                   /\ h'[c].err = "none"
                \/ /\ h'[c].pc \in ReturnPath
                   /\ \/ h[c].pc \in ReturnPath
                      \/ h'[c].err # "none"
                      \/ h[c].pc = "splice"]_vars
    /\ [](\A c \in Conns :
            Dialled(h[c]) =>
                /\ PhaseRank(h[c].pc) >= 3 /\ h[c].pc # "dial"
                /\ RequestComplete(h[c].script)
                /\ h[c].target # <<>> /\ HasSuccessReply(h[c]))

\* A handler stands in phase 5, both copy directions about to read, the
\* client answered and the upstream open.
C26_Witness ==
    \E c \in Conns :
        /\ h[c].pc = "splice" /\ h[c].cu = "read" /\ h[c].uc = "read"
        /\ h[c].err = "none" /\ h[c].ustate = "open"
        /\ HasSuccessReply(h[c])

(***************************************************************************)
(* Properties of failures                                                  *)
(***************************************************************************)

UpstreamErrors == {"up_write", "up_read", "auth"}
ForwardErrors == {"split", "fwd_write", "fwd_read", "fwd_status"}

\* The status bytes of the upstream's authentication reply and CONNECT reply
\* that handler s has read: bytes 4 and 6 of what the upstream sent.
AuthStatus(s) == s.uscript[4]
ConnectStatus(s) == s.uscript[6]

\* C27: an error in phases 1-4 aborts the connection and nothing is retried.
\* A handler that recorded an error is on its return and never started the
\* splice; from then on it reads and writes nothing, dials nothing and keeps
\* its error. An upstream connection comes into being only in phase 3 and,
\* once closed, is not opened again (at most one dial per connection). After
\* an error before or in the dial there is no upstream connection; after an
\* error of the upstream handshake or authentication no CONNECT was sent;
\* and the splice has started only if both upstream status bytes were 0.
C27_ErrorsAbortNoRetry ==
    /\ [](\A c \in Conns :
            LET s == h[c]
            IN  /\ s.err # "none" =>
                     (s.pc \in ReturnPath /\ s.cu = "idle" /\ s.uc = "idle")
                /\ s.err \in HandshakeErrors \cup RequestErrors \cup {"dial"} =>
                     (s.ustate = "none" /\ s.uout = <<>>)
                /\ s.err \in HandshakeErrors => ~HasSuccessReply(s)
                /\ s.err \in UpstreamErrors =>
                     Len(s.uout) <= 3 + Len(AuthMessage(srv.config))
                /\ s.cu # "idle" =>
                     (AuthStatus(s) = 0 /\ ConnectStatus(s) = 0))
    /\ [][\A c \in Conns :
            /\ h[c].err # "none" =>
                 /\ h'[c].err = h[c].err
                 /\ h'[c].cin = h[c].cin /\ h'[c].cout = h[c].cout
                 /\ h'[c].uin = h[c].uin /\ h'[c].uout = h[c].uout
                 /\ h'[c].uscript = h[c].uscript
            /\ h'[c].ustate # h[c].ustate =>
                 \/ h[c].ustate = "none" /\ h[c].pc = "dial"
                 \/ h[c].ustate = "open" /\ h'[c].ustate = "closed"
            /\ h'[c].uscript # h[c].uscript =>
                 (h[c].ustate = "none" /\ h[c].pc = "dial")]_vars

\* The upstream answered the CONNECT with a failure status: the handler
\* returned with the CONNECT its last write, no splice, both sockets closed.
C27_Witness ==
    \E c \in Conns :
        /\ h[c].err = "fwd_status" /\ h[c].pc = "done"
        /\ ConnectStatus(h[c]) # 0 /\ AuthStatus(h[c]) = 0
        /\ h[c].cu = "idle" /\ h[c].uc = "idle"
        /\ h[c].ustate = "closed" /\ h[c].cclosed

\* The upstream rejected the credentials: the handler returned having sent
\* the greeting and the credentials and nothing more.
C27_WitnessAuth ==
    \E c \in Conns :
        /\ h[c].err = "auth" /\ h[c].pc = "done" /\ AuthStatus(h[c]) # 0
        /\ h[c].uout = <<VERSION, 1, 2>> \o AuthMessage(srv.config)

\* The upstream's 2-byte method-selection reply, once handler s has read it.
MethodSelection(s) == SubSeq(s.uscript, 1, 2)

\* Handler s has written more than its greeting to the upstream: the
\* username/password sub-negotiation with the stored credentials.
CredentialsSent(s) == Len(s.uout) > 3

\* C28: a malformed method-selection reply of the upstream is fatal. The
\* credentials are written to the upstream only if its 2-byte reply is
\* version 5, method 0x02; after any other reply the handler fails and
\* phase 3 leaves no credentials on the upstream socket.
C28_CredentialsOnlyAfterMethodTwo ==
    \A c \in Conns :
        (PhaseRank(h[c].pc) >= 4 /\ Len(h[c].uscript) >= 2
            /\ MethodSelection(h[c]) # <<VERSION, 2>>) =>
            /\ h[c].err # "none"
            /\ ~CredentialsSent(h[c])

(***************************************************************************)
(* Properties of the splice                                                *)
(***************************************************************************)

\* C29: in the splice, a direction whose source reached end-of-stream
\* half-closes its destination, and only after every byte it copied has
\* been written: the step that closes the write half of a socket is taken by
\* the direction that writes to it, with no chunk pending and, unless its
\* own write failed, with its source at end-of-stream and all of the source
\* written; a direction that has finished has closed that write half. The
\* step leaves the opposite direction, its pending chunk, its source and
\* both sockets otherwise as they were, and a direction ends only on the
\* end of its own source (or the failure of its own write).
C29_HalfCloseAfterLastByte ==
    /\ [][\A c \in Conns :
            /\ (h'[c].uwr /\ ~h[c].uwr) =>
                 /\ h[c].cu = "stop" /\ h[c].cubuf = <<>>
                 /\ ~h[c].cufail =>
                      (h[c].cin = <<>> /\ WrittenToUpstream(h[c]) = h[c].cinAt)
                 /\ h'[c].uc = h[c].uc /\ h'[c].ucbuf = h[c].ucbuf
                 /\ h'[c].uin = h[c].uin /\ h'[c].cwr = h[c].cwr
                 /\ h'[c].ustate = "open" /\ ~h'[c].cclosed
            /\ (h'[c].cwr /\ ~h[c].cwr) =>
                 /\ h[c].uc = "stop" /\ h[c].ucbuf = <<>>
                 /\ ~h[c].ucfail =>
                      (h[c].uin = <<>> /\ WrittenToClient(h[c]) = h[c].uinAt)
                 /\ h'[c].cu = h[c].cu /\ h'[c].cubuf = h[c].cubuf
                 /\ h'[c].cin = h[c].cin /\ h'[c].uwr = h[c].uwr
                 /\ h'[c].ustate = "open" /\ ~h'[c].cclosed]_vars
    /\ [](\A c \in Conns :
            /\ h[c].cu = "done" => h[c].uwr
            /\ h[c].uc = "done" => h[c].cwr
            /\ h[c].cu \in {"stop", "done"} => (h[c].cin = <<>> \/ h[c].cufail)
            /\ h[c].uc \in {"stop", "done"} => (h[c].uin = <<>> \/ h[c].ucfail))

\* The client's stream has ended and the upstream's write half is closed,
\* all of the client's bytes written, while the other direction still has
\* bytes of the upstream to deliver.
C29_Witness ==
    \E c \in Conns :
        /\ h[c].pc = "splice" /\ h[c].cu = "done" /\ h[c].uwr /\ ~h[c].cufail
        /\ h[c].cinAt # <<>> /\ WrittenToUpstream(h[c]) = h[c].cinAt
        /\ h[c].uc = "read" /\ h[c].uin # <<>> /\ ~h[c].cwr

\* Handler c is in forwardTraffic with both copy goroutines finished.
BothDirectionsDone(c) ==
    h[c].pc = "splice" /\ h[c].cu = "done" /\ h[c].uc = "done"

\* C30: the handler returns from the splice exactly when both copy
\* directions have finished. A handler that started the splice has left it,
\* or has fully closed its client or upstream socket, only with both
\* directions done; and once both are done it does return, and its deferred
\* calls close both sockets.
C30_ReturnsWhenBothDone ==
    /\ [](\A c \in Conns :
            h[c].cu # "idle" =>
                /\ h[c].pc # "splice" => (h[c].cu = "done" /\ h[c].uc = "done")
                /\ (h[c].cclosed \/ h[c].ustate # "open") =>
                       (h[c].pc # "splice" /\ h[c].cu = "done" /\ h[c].uc = "done"))
    /\ \A c \in Conns :
         BothDirectionsDone(c) ~>
             (h[c].pc = "done" /\ h[c].cclosed /\ h[c].ustate = "closed")

\* The handler has just returned from a splice that carried payload both
\* ways: both directions done, its deferred closes not yet run.
C30_Witness ==
    \E c \in Conns :
        /\ h[c].pc = "ret_upstream" /\ h[c].cu = "done" /\ h[c].uc = "done"
        /\ ~h[c].cclosed /\ h[c].ustate = "open"
        /\ h[c].cinAt # <<>> /\ h[c].uinAt # <<>>

(***************************************************************************)
(* Properties of the credential store: merging and writing                 *)
(***************************************************************************)

\* The last call of LoadOrCreate returned a config.
Resolved == res.kind = "returned" /\ res.out.kind = "ok"

\* The config held by the credentials file of st as the passphrase opens
\* it, and the host and port held by its host file; empty values where the
\* file does not exist.
CredRecord(st, encpass) ==
    IF st.creds.exists
    THEN UnmarshalConfig(Decrypt(st.creds.data, encpass).data).cfg
    ELSE EmptyConfig
HostRecord(st) ==
    IF st.host.exists
    THEN [UpstreamHost |-> st.host.data.upstream_host,
          UpstreamPort |-> st.host.data.upstream_port]
    ELSE [UpstreamHost |-> <<>>, UpstreamPort |-> 0]

\* C31: LoadOrCreate merges with the precedence argument > credential record
\* > host record: every field of a returned config is the argument when that
\* is not empty or zero, else the value of the decrypted credential record
\* when that is not empty or zero, else, for host and port, the value of the
\* host record.
C31_MergePrecedence ==
    Resolved =>
        LET a   == res.args
            rec == CredRecord(res.before, a.encpass)
            hr  == HostRecord(res.before)
            cfg == res.out.cfg
        IN  /\ cfg.Username = IF a.username # <<>> THEN a.username ELSE rec.Username
            /\ cfg.Password = IF a.password # <<>> THEN a.password ELSE rec.Password
            /\ cfg.UpstreamHost =
                 IF a.upstreamHost # <<>> THEN a.upstreamHost
                 ELSE IF rec.UpstreamHost # <<>> THEN rec.UpstreamHost
                 ELSE hr.UpstreamHost
            /\ cfg.UpstreamPort =
                 IF a.upstreamPort # 0 THEN a.upstreamPort
                 ELSE IF rec.UpstreamPort # 0 THEN rec.UpstreamPort
                 ELSE hr.UpstreamPort

\* A call without host and port found a credential record and a host record
\* that disagree, and returned the host and port of the credential record
\* with the username of the call.
C31_Witness ==
    /\ Resolved
    /\ res.args.upstreamHost = <<>> /\ res.args.upstreamPort = 0
    /\ res.args.username # <<>>
    /\ res.before.creds.exists /\ res.before.host.exists
    /\ HostRecord(res.before).UpstreamHost # res.out.cfg.UpstreamHost
    /\ HostRecord(res.before).UpstreamPort # res.out.cfg.UpstreamPort
    /\ CredRecord(res.before, res.args.encpass).Username # res.out.cfg.Username

\* A call with only a username and a password found no credential record and
\* returned the host and port of the host record.
C31_WitnessHostRecord ==
    /\ Resolved
    /\ res.args.upstreamHost = <<>> /\ res.args.upstreamPort = 0
    /\ ~res.before.creds.exists /\ res.before.host.exists
    /\ res.out.cfg.UpstreamHost = HostRecord(res.before).UpstreamHost

\* C32: every successful LoadOrCreate rewrites the host file to the host and
\* port it returns; it writes the credentials file, sealing the returned
\* username, password, host and port under the passphrase, if and only if
\* the passphrase of the call is not empty, and otherwise leaves that file
\* as it found it.
C32_ResolveWrites ==
    Resolved =>
        LET cfg == res.out.cfg
            pw  == res.args.encpass
        IN  /\ store.host.exists
            /\ UnmarshalHost(store.host.data) =
                   [ok |-> TRUE, host |-> cfg.UpstreamHost,
                    port |-> cfg.UpstreamPort]
            /\ pw # <<>> =>
                   /\ store.creds.exists
                   /\ Decrypt(store.creds.data, pw).ok
                   /\ CredRecord(store, pw) = cfg
            /\ pw = <<>> => store.creds = res.before.creds

\* The last call was SaveConfig.
SavedCall == res.kind = "saved"

\* The files `after` are what a write of cfg under encpass by `written`
\* leaves of the files `before`: the same host file, credentials that
\* decrypt to the same content, and with an empty passphrase the very
\* credentials file found.
SameWrite(after, written, before, encpass) ==
    /\ StoreEquivalent(after, written, encpass)
    /\ encpass = <<>> => (after.creds = before.creds /\ written.creds = before.creds)

\* C33: SaveConfig(cfg, encpass) writes what the tail of a successful
\* LoadOrCreate that resolved to cfg with encpass writes. From the files a
\* successful LoadOrCreate found, SaveConfig of the returned config under the
\* same passphrase leaves the files that call left; from the files a
\* SaveConfig found, the save of LoadOrCreate leaves the files SaveConfig
\* left; with an empty passphrase both leave the credentials file untouched.
C33_SaveSameAsResolveTail ==
    /\ Resolved =>
         \A nonce \in Nonces :
            SameWrite(store,
                      SaveConfig(res.before, res.out.cfg, res.args.encpass, nonce),
                      res.before, res.args.encpass)
    /\ SavedCall =>
         \A nonce \in Nonces :
            SameWrite(store,
                      Saved(res.before, res.args.cfg, res.args.encpass, nonce),
                      res.before, res.args.encpass)

\* SaveConfig with a passphrase replaced both records by those of a config
\* with another host; SaveConfig without one replaced the host file and
\* left the credentials file it found.
C33_Witness ==
    /\ SavedCall /\ res.args.encpass # <<>>
    /\ res.before.host.exists /\ res.before.creds.exists
    /\ store.host # res.before.host
    /\ Decrypt(store.creds.data, res.args.encpass).ok
    /\ CredRecord(store, res.args.encpass).UpstreamHost = res.args.cfg.UpstreamHost
C33_WitnessNoPassphrase ==
    /\ SavedCall /\ res.args.encpass = <<>>
    /\ res.before.creds.exists /\ store.creds = res.before.creds
    /\ store.host # res.before.host

\* C34: every config a successful LoadOrCreate returns has a port in
\* 1..65535; a port argument or stored port outside that range makes the
\* call fail.
C34_PortInRange ==
    Resolved => res.out.cfg.UpstreamPort \in 1..MaxPort

(***************************************************************************)
(* Properties of the sockets at the end of a handler                       *)
(***************************************************************************)

\* Handler c was dispatched and has run its deferred s.wg.Done().
Untracked(c) == h[c].pc \in {"ret_client", "done"}

\* C35: a handler leaves the tracked set only after both of its sockets are
\* closed: a handler that has run s.wg.Done() has a closed client socket and
\* no open upstream socket, so that with the tracker at zero no socket of a
\* dispatched handler is open.
C35_UntrackedAfterSocketsClosed ==
    \A c \in Conns :
        Untracked(c) => (h[c].cclosed /\ h[c].ustate # "open")

\* C36: the server never leaks its listening socket: whatever the order of
\* Start and Stop, once a Stop has returned and Start has returned, no
\* listening socket bound by the server is open.
C36_NoListenerLeak ==
    (StopReturned /\ StartReturned) => ~AddressInUse

(***************************************************************************)
(* Properties of the bytes around the upstream's CONNECT reply             *)
(***************************************************************************)

\* The upstream's CONNECT reply follows its 2-byte method selection and its
\* 2-byte authentication reply; its length is 6 plus that of its bound
\* address field.
ReplyStart == 5
ReplyLen(script) ==
    LET rp == Drop(script, ReplyStart)
    IN  6 + AddrFieldLen(rp[4], Drop(rp, 5))

\* What the upstream sent after its CONNECT reply.
AfterReply(script) == Drop(script, ReplyStart + ReplyLen(script))

\* C37: the relay consumes the upstream's whole CONNECT reply before the
\* splice, whatever the type of the bound address: what the upstream->client
\* direction finds to copy is what the upstream sent after its reply, so
\* that the bytes written to the client in phase 5 are the first bytes of
\* that, and none of the reply.
C37_WholeReplyConsumed ==
    \A c \in Conns :
        h[c].cu # "idle" =>
            /\ h[c].uinAt = AfterReply(h[c].uscript)
            /\ ~h[c].ucfail =>
                 WrittenToClient(h[c]) \o h[c].ucbuf \o h[c].uin
                     = AfterReply(h[c].uscript)

\* What the client sent after its request: its payload.
PayloadOf(script) ==
    LET rq == RequestOf(script)
    IN  Drop(rq, 4 + AddrFieldLen(rq[4], Drop(rq, 5)) + 2 + 1)

\* The protocol bytes handler s sends to its upstream in phases 3 and 4: the
\* greeting, the authentication message, the CONNECT request for its target.
ProtocolBytes(s) ==
    LET sp == SplitHostPort(s.target)
    IN  <<VERSION, 1, 2>> \o AuthMessage(srv.config)
            \o ConnectRequest(sp.host, sp.port)

\* C38: payload the client sends right after its request, before the relay
\* has dialled and negotiated with the upstream, is neither lost nor taken
\* for protocol bytes. On a connection that reached the splice, what the
\* client->upstream direction finds to copy is everything the client sent
\* after its request; and the upstream has received the greeting, the
\* authentication message and the CONNECT request, followed by bytes that
\* are, with the chunk in hand and the bytes not yet read, exactly that
\* payload in order.
C38_EarlyPayloadDelivered ==
    \A c \in Conns :
        h[c].cu # "idle" =>
            /\ h[c].cinAt = PayloadOf(h[c].script)
            /\ SubSeq(h[c].uout, 1, h[c].uoutAt) = ProtocolBytes(h[c])
            /\ ~h[c].cufail =>
                 h[c].uout \o h[c].cubuf \o h[c].cin
                     = ProtocolBytes(h[c]) \o PayloadOf(h[c].script)

\* A client sent two bytes of payload with its request; the handler returned
\* from the splice and the upstream holds the protocol bytes followed by
\* these two bytes.
C38_Witness ==
    \E c \in Conns :
        /\ h[c].pc = "done" /\ h[c].err = "none" /\ ~h[c].cufail
        /\ Len(PayloadOf(h[c].script)) = 2
        /\ h[c].uout = ProtocolBytes(h[c]) \o PayloadOf(h[c].script)

\* C39: the target survives the hop from handleRequest to forwardRequest.
\* For every domain-type client request, whatever the bytes of the name
\* (':' '[' ']' included) and whatever the port, splitting the target that
\* handleRequest formatted as "<address>:<port>" succeeds and gives back the
\* name's bytes as host and the client's port, so that the host and port
\* bytes of the CONNECT request are those the client sent.
C39_TargetRoundTrip ==
    \A c \in Conns :
        (/\ Phase2Ran(h[c])
         /\ h[c].err \notin RequestErrors
         /\ RequestOf(h[c].script)[4] = 3) =>
            LET sp      == SplitHostPort(h[c].target)
                portNum == ParseDec(sp.port, 0)
            IN  /\ sp.ok
                /\ sp.host = RawAddr(h[c].script)
                /\ <<portNum \div 256, portNum % 256>> = PortBytes(h[c].script)

\* C40: the two stored records never disagree. After every successful
\* LoadOrCreate and every SaveConfig, in any sequence of such calls, whenever
\* the host file and the credentials file both exist and the credentials
\* file opens, under one of the passphrases, to a config, the upstream host
\* and port of that config are the host and port of the host file.
C40_RecordsAgree ==
    (Resolved \/ SavedCall) =>
        \A encpass \in PassphraseArgs \ {<<>>} :
            (/\ store.creds.exists
             /\ store.host.exists
             /\ Decrypt(store.creds.data, encpass).ok
             /\ UnmarshalConfig(Decrypt(store.creds.data, encpass).data).ok) =>
                /\ CredRecord(store, encpass).UpstreamHost
                       = HostRecord(store).UpstreamHost
                /\ CredRecord(store, encpass).UpstreamPort
                       = HostRecord(store).UpstreamPort

====
